---- MODULE Spec2Model ----
(***************************************************************************)
(* Model of api/calendar.py of velopark-calendar: the week-label resolver  *)
(* (parse_week_date), the time-window parser (parse_time_slots), the event *)
(* generators (generate_icalendar, generate_debug_info), alone and         *)
(* interleaved, and the request handler (do_GET) with the page extractor.  *)
(*                                                                         *)
(* A Python str is modelled as a sequence of one-character strings, so     *)
(* that the regular expressions of the source are computed character by    *)
(* character; Str(s) joins such a sequence into a TLA+ string where the    *)
(* source builds output text or looks a key up in a dict.                  *)
(***************************************************************************)
EXTENDS Integers, Sequences, FiniteSets, TLC

VARIABLES
    returned,         \* the set of functions that have returned (or raised)
    now,              \* the clock: what datetime.now() / utcnow() would give
    week_title,       \* parse_week_date: its argument
    week_start_date,  \* parse_week_date: its result
    parts,            \* the pieces the day string is made of
    sep,              \* the separator the pieces are joined with
    times_str,        \* parse_time_slots: its argument
    slots,            \* parse_time_slots: its result
    notes,            \* extract_special_notes: its result
    schedule_data,    \* generate_*: ordered mapping week title -> day schedule
    calendar_name,    \* generate_icalendar: argument
    include_notes,    \* generate_icalendar: argument
    weeks_ahead,      \* generate_*: argument
    ics_content,      \* generate_icalendar: its result (the lines it joins)
    debug_info,       \* generate_debug_info: its result
    page,             \* do_GET: what the website serves to the scraper
    query_params,     \* do_GET: the parameters of the request
    response,         \* do_GET: the response it sends
    heap,             \* the schedule objects that running invocations share
    calls             \* the frames of the invocations that run concurrently

vars == <<returned, now, week_title, week_start_date, parts, sep, times_str,
          slots, notes, schedule_data, calendar_name, include_notes,
          weeks_ahead, ics_content, debug_info, page, query_params, response,
          heap, calls>>

\* the state of a request
requestVars == <<page, query_params, response>>

----------------------------------------------------------------------------
(* Characters and strings *)

Digits == {"0", "1", "2", "3", "4", "5", "6", "7", "8", "9"}

UpperChars == <<"A", "B", "C", "D", "E", "F", "G", "H", "I", "J", "K", "L", "M",
                "N", "O", "P", "Q", "R", "S", "T", "U", "V", "W", "X", "Y", "Z">>

LowerChars == <<"a", "b", "c", "d", "e", "f", "g", "h", "i", "j", "k", "l", "m",
                "n", "o", "p", "q", "r", "s", "t", "u", "v", "w", "x", "y", "z">>

\* the characters \s matches, among those the model's strings use
Whitespace == {" ", "\t"}

\* the characters \w matches, among those the model's strings use
WordChars ==
    Digits \cup {"_"} \cup {UpperChars[i] : i \in 1..26} \cup {LowerChars[i] : i \in 1..26}

RECURSIVE Str(_)
Str(s) == IF s = <<>> THEN "" ELSE Head(s) \o Str(Tail(s))

LowerChar(c) ==
    IF \E i \in 1..26 : UpperChars[i] = c
    THEN LowerChars[CHOOSE i \in 1..26 : UpperChars[i] = c]
    ELSE c

\* str.lower()
lower(s) == [i \in 1..Len(s) |-> LowerChar(s[i])]

\* pat in s
Contains(s, pat) ==
    \E i \in 0..(Len(s) - Len(pat)) : SubSeq(s, i + 1, i + Len(pat)) = pat

RECURSIVE LStrip(_)
LStrip(s) == IF s # <<>> /\ Head(s) \in Whitespace THEN LStrip(Tail(s)) ELSE s

RECURSIVE RStrip(_)
RStrip(s) ==
    IF s # <<>> /\ s[Len(s)] \in Whitespace
    THEN RStrip(SubSeq(s, 1, Len(s) - 1))
    ELSE s

\* str.strip()
strip(s) == RStrip(LStrip(s))

\* str.replace(c, '') for a one-character c
RECURSIVE RemoveChars(_, _)
RemoveChars(s, cs) ==
    IF s = <<>> THEN <<>>
    ELSE IF Head(s) \in cs THEN RemoveChars(Tail(s), cs)
    ELSE <<Head(s)>> \o RemoveChars(Tail(s), cs)

\* sep.join(ps)
RECURSIVE JoinWith(_, _)
JoinWith(sp, ps) ==
    IF ps = <<>> THEN <<>>
    ELSE IF Len(ps) = 1 THEN ps[1]
    ELSE ps[1] \o sp \o JoinWith(sp, Tail(ps))

----------------------------------------------------------------------------
(* parse_time_slots *)

S_closed == <<"c", "l", "o", "s", "e", "d">>

\* 'closed' in times_str
IsClosed_CaseSensitive(s) == Contains(s, S_closed)

\* 'closed' in times_str.lower()
IsClosed(s) == Contains(lower(s), S_closed)

\* re.sub(r'\(.*\)', '', s): from a "(" to the last ")" after it
RECURSIVE StripParens_Greedy(_)
StripParens_Greedy(s) ==
    IF s = <<>> THEN <<>>
    ELSE IF Head(s) = "(" /\ \E k \in 2..Len(s) : s[k] = ")"
    THEN LET k == CHOOSE k \in 2..Len(s) :
                      s[k] = ")" /\ \A j \in (k + 1)..Len(s) : s[j] # ")"
         IN  StripParens_Greedy(SubSeq(s, k + 1, Len(s)))
    ELSE <<Head(s)>> \o StripParens_Greedy(Tail(s))

\* re.sub(r'\([^)]*\)', '', s): from a "(" to the first ")" after it, leftmost
\* first, the scan going on after the ")"
RECURSIVE StripParens(_)
StripParens(s) ==
    IF s = <<>> THEN <<>>
    ELSE IF Head(s) = "(" /\ \E k \in 2..Len(s) : s[k] = ")"
    THEN LET k == CHOOSE k \in 2..Len(s) :
                      s[k] = ")" /\ \A j \in 2..(k - 1) : s[j] # ")"
         IN  StripParens(SubSeq(s, k + 1, Len(s)))
    ELSE <<Head(s)>> \o StripParens(Tail(s))

\* the substrings that re.sub(r'\([^)]*\)', '', s) deletes, in source order
RECURSIVE StrippedParts(_)
StrippedParts(s) ==
    IF s = <<>> THEN <<>>
    ELSE IF Head(s) = "(" /\ \E k \in 2..Len(s) : s[k] = ")"
    THEN LET k == CHOOSE k \in 2..Len(s) :
                      s[k] = ")" /\ \A j \in 2..(k - 1) : s[j] # ")"
         IN  <<SubSeq(s, 1, k)>> \o StrippedParts(SubSeq(s, k + 1, Len(s)))
    ELSE StrippedParts(Tail(s))

\* re.sub(r'\s+', ' ', s)
RECURSIVE CollapseSpaces(_)
CollapseSpaces(s) ==
    IF s = <<>> THEN <<>>
    ELSE IF Head(s) \in Whitespace THEN <<" ">> \o CollapseSpaces(LStrip(s))
    ELSE <<Head(s)>> \o CollapseSpaces(Tail(s))

\* \d{2}:\d{2} matches at position i of s
IsTimeAt(s, i) ==
    /\ i >= 1
    /\ i + 4 <= Len(s)
    /\ s[i] \in Digits
    /\ s[i + 1] \in Digits
    /\ s[i + 2] = ":"
    /\ s[i + 3] \in Digits
    /\ s[i + 4] \in Digits

\* re.sub(r'(\d{2}:\d{2})(\d{2}:\d{2})', r'\1 \2', s) with the group boundary
\* one character early
RECURSIVE SplitStuckTimes_BadGroup(_)
SplitStuckTimes_BadGroup(s) ==
    IF Len(s) < 10 THEN s
    ELSE IF IsTimeAt(s, 1) /\ IsTimeAt(s, 6)
    THEN SubSeq(s, 1, 4) \o <<" ">> \o SubSeq(s, 5, 10)
             \o SplitStuckTimes_BadGroup(SubSeq(s, 11, Len(s)))
    ELSE <<Head(s)>> \o SplitStuckTimes_BadGroup(Tail(s))

\* re.sub(r'(\d{2}:\d{2})(\d{2}:\d{2})', r'\1 \2', s)
RECURSIVE SplitStuckTimes(_)
SplitStuckTimes(s) ==
    IF Len(s) < 10 THEN s
    ELSE IF IsTimeAt(s, 1) /\ IsTimeAt(s, 6)
    THEN SubSeq(s, 1, 5) \o <<" ">> \o SubSeq(s, 6, 10)
             \o SplitStuckTimes(SubSeq(s, 11, Len(s)))
    ELSE <<Head(s)>> \o SplitStuckTimes(Tail(s))

\* the first position >= i of s that holds no whitespace (Len(s) + 1 if none)
RECURSIVE SkipWs(_, _)
SkipWs(s, i) == IF i <= Len(s) /\ s[i] \in Whitespace THEN SkipWs(s, i + 1) ELSE i

\* where a match of \d{2}:\d{2}\s*-\s*\d{2}:\d{2} starting at i ends; 0 if none
RangeEndAt(s, i) ==
    IF ~IsTimeAt(s, i) THEN 0
    ELSE LET a == SkipWs(s, i + 5)
         IN  IF a > Len(s) \/ s[a] # "-" THEN 0
             ELSE LET b == SkipWs(s, a + 1)
                  IN  IF IsTimeAt(s, b) THEN b + 4 ELSE 0

\* re.findall(r'\d{2}:\d{2}\s*-\s*\d{2}:\d{2}', s), scanning from position i
RECURSIVE FindTimeRanges(_, _)
FindTimeRanges(s, i) ==
    IF i > Len(s) THEN <<>>
    ELSE LET e == RangeEndAt(s, i)
         IN  IF e > 0
             THEN <<SubSeq(s, i, e)>> \o FindTimeRanges(s, e + 1)
             ELSE FindTimeRanges(s, i + 1)

\* re.match(r'^\d{2}:\d{2}$', t)
IsHHMM(t) == Len(t) = 5 /\ IsTimeAt(t, 1)

\* a loop body that splits the range as found, its spaces kept, and does not
\* validate the two times
SlotOfRange_Unvalidated(time_range) ==
    LET k == CHOOSE k \in 1..Len(time_range) :
                 time_range[k] = "-" /\ \A j \in 1..(k - 1) : time_range[j] # "-"
    IN  <<(<<SubSeq(time_range, 1, k - 1), SubSeq(time_range, k + 1, Len(time_range))>>)>>

\* the loop body of parse_time_slots: one time_range to zero or one slot
SlotOfRange(time_range) ==
    LET clean_range == RemoveChars(time_range, Whitespace)
    IN  IF \E k \in 1..Len(clean_range) : clean_range[k] = "-"
        THEN LET k == CHOOSE k \in 1..Len(clean_range) :
                          clean_range[k] = "-" /\ \A j \in 1..(k - 1) : clean_range[j] # "-"
                 start_time == SubSeq(clean_range, 1, k - 1)
                 end_time == SubSeq(clean_range, k + 1, Len(clean_range))
             IN  IF IsHHMM(start_time) /\ IsHHMM(end_time)
                 THEN <<(<<start_time, end_time>>)>>
                 ELSE <<>>
        ELSE <<>>

RECURSIVE SlotsOfRanges(_)
SlotsOfRanges(time_ranges) ==
    IF time_ranges = <<>> THEN <<>>
    ELSE SlotOfRange(Head(time_ranges)) \o SlotsOfRanges(Tail(time_ranges))

\* minutes since midnight of an HH:MM text
HHMMValue(t) ==
    LET d(c) == CHOOSE n \in 0..9 : ToString(n) = c
    IN  ((d(t[1]) * 10 + d(t[2])) * 60) + d(t[4]) * 10 + d(t[5])

RECURSIVE InsertSlot(_, _)
InsertSlot(w, ws) ==
    IF ws = <<>> THEN <<w>>
    ELSE IF HHMMValue(w[1]) < HHMMValue(Head(ws)[1]) THEN <<w>> \o ws
    ELSE <<Head(ws)>> \o InsertSlot(w, Tail(ws))

\* the slots in order of start time (insertion sort)
RECURSIVE SortedSlots(_)
SortedSlots(ws) ==
    IF ws = <<>> THEN <<>> ELSE InsertSlot(Head(ws), SortedSlots(Tail(ws)))

\* as SlotsOfText, the result put in order of start time
SlotsOfText_Sorted(cleaned_str) ==
    SortedSlots(SlotsOfRanges(FindTimeRanges(
        SplitStuckTimes(CollapseSpaces(strip(cleaned_str))), 1)))

\* what parse_time_slots does with cleaned_str, the text without its notes
SlotsOfText(cleaned_str) ==
    LET normalized == SplitStuckTimes(CollapseSpaces(strip(cleaned_str)))
        time_ranges == FindTimeRanges(normalized, 1)
    IN  SlotsOfRanges(time_ranges)

parse_time_slots(s) ==
    IF IsClosed(s) THEN <<>> ELSE SlotsOfText(StripParens(s))

----------------------------------------------------------------------------
(* Dates: datetime(year, month, day), timedelta, strftime *)

\* the year parse_week_date uses
year == 2025

\* the largest value of a C int; datetime() takes its arguments as C ints
CIntMaxDigits == <<"2", "1", "4", "7", "4", "8", "3", "6", "4", "7">>

\* int(c) for a digit character c
DigitValue(c) == CHOOSE n \in 0..9 : ToString(n) = c

RECURSIVE StripLeadingZeros(_)
StripLeadingZeros(ds) ==
    IF Len(ds) > 1 /\ Head(ds) = "0" THEN StripLeadingZeros(Tail(ds)) ELSE ds

\* a < b for two digit texts of one length
RECURSIVE DigitsLess(_, _)
DigitsLess(a, b) ==
    IF a = <<>> THEN FALSE
    ELSE IF Head(a) # Head(b) THEN DigitValue(Head(a)) < DigitValue(Head(b))
    ELSE DigitsLess(Tail(a), Tail(b))

\* int(ds) does not fit a C int (Python's own int is unbounded)
ExceedsCInt(ds) ==
    LET n == StripLeadingZeros(ds)
    IN  \/ Len(n) > Len(CIntMaxDigits)
        \/ Len(n) = Len(CIntMaxDigits) /\ DigitsLess(CIntMaxDigits, n)

\* int(ds), for a text of digits that fits a C int
RECURSIVE IntOfDigits(_, _)
IntOfDigits(ds, acc) ==
    IF ds = <<>> THEN acc
    ELSE IntOfDigits(Tail(ds), acc * 10 + DigitValue(Head(ds)))

int(ds) == IntOfDigits(StripLeadingZeros(ds), 0)

IsLeap(y) == (y % 4 = 0) /\ ((y % 100 # 0) \/ (y % 400 = 0))

DaysInMonth(y, m) ==
    IF m = 2 THEN (IF IsLeap(y) THEN 29 ELSE 28)
    ELSE IF m \in {4, 6, 9, 11} THEN 30 ELSE 31

RECURSIVE DaysBeforeMonth(_, _)
DaysBeforeMonth(y, m) ==
    IF m = 1 THEN 0 ELSE DaysBeforeMonth(y, m - 1) + DaysInMonth(y, m - 1)

DaysBeforeYear(y) ==
    (y - 1) * 365 + ((y - 1) \div 4) - ((y - 1) \div 100) + ((y - 1) \div 400)

\* date.toordinal()
toordinal(d) == DaysBeforeYear(d.year) + DaysBeforeMonth(d.year, d.month) + d.day

\* the years a date of the model can fall in
DateYears == (year - 1)..(year + 2)

\* date.fromordinal(n)
fromordinal(n) ==
    LET y == CHOOSE y \in DateYears : DaysBeforeYear(y) < n /\ n <= DaysBeforeYear(y + 1)
        r == n - DaysBeforeYear(y)
        m == CHOOSE m \in 1..12 :
                 DaysBeforeMonth(y, m) < r /\ r <= DaysBeforeMonth(y, m) + DaysInMonth(y, m)
    IN  [kind |-> "datetime", year |-> y, month |-> m, day |-> r - DaysBeforeMonth(y, m)]

\* a wrong d + timedelta(days=n): the days are not added
PlusDays_SameDay(d, n) == d

\* d + timedelta(days=n)
PlusDays(d, n) == fromordinal(toordinal(d) + n)

\* str(n) for a digit n
DigitChar(n) == ToString(n)

\* a wrong str(n): always '0'
str_Zero(n) == <<"0">>

\* str(n) for n >= 0
RECURSIVE str(_)
str(n) == IF n < 10 THEN <<DigitChar(n)>> ELSE str(n \div 10) \o <<DigitChar(n % 10)>>

\* the %d / %m / %H / %M / %S of strftime: two digits
Pad2(n) == <<DigitChar((n \div 10) % 10), DigitChar(n % 10)>>

\* the %Y of strftime, for a year of four digits
Pad4(n) == Pad2(n \div 100) \o Pad2(n % 100)

\* d.strftime('%Y%m%d')
strftime_Ymd(d) == Pad4(d.year) \o Pad2(d.month) \o Pad2(d.day)

\* d.strftime('%Y-%m-%d')
strftime_Y_m_d(d) == Pad4(d.year) \o <<"-">> \o Pad2(d.month) \o <<"-">> \o Pad2(d.day)

\* t.strftime('%Y%m%dT%H%M%SZ')
strftime_stamp(t) ==
    strftime_Ymd(t) \o <<"T">> \o Pad2(t.hour) \o Pad2(t.minute) \o Pad2(t.second) \o <<"Z">>

\* d.weekday(): Monday is 0 (ordinal 1, the first of January of year 1, is a Monday)
weekday(d) == (toordinal(d) + 6) % 7

----------------------------------------------------------------------------
(* parse_week_date *)

S_week_beginning ==
    <<"w", "e", "e", "k", " ", "b", "e", "g", "i", "n", "n", "i", "n", "g", " ">>

months ==
    [january |-> 1, jan |-> 1, february |-> 2, feb |-> 2, march |-> 3, mar |-> 3,
     april |-> 4, apr |-> 4, may |-> 5, june |-> 6, jun |-> 6, july |-> 7, jul |-> 7,
     august |-> 8, aug |-> 8, september |-> 9, sep |-> 9, october |-> 10, oct |-> 10,
     november |-> 11, nov |-> 11, december |-> 12, dec |-> 12]

None == [kind |-> "None"]

\* the end of the longest run of characters of cs that starts at position i of
\* s (i - 1 when s[i] is not in cs)
RECURSIVE RunEnd(_, _, _)
RunEnd(s, i, cs) == IF i <= Len(s) /\ s[i] \in cs THEN RunEnd(s, i + 1, cs) ELSE i - 1

\* r'Week beginning (\d+) (\w+)' with re.IGNORECASE matches at position i of s
WeekMatchAt(s, i) ==
    LET n == Len(S_week_beginning)
        d1 == i + n
        d2 == RunEnd(s, d1, Digits)
        w1 == d2 + 2
        w2 == RunEnd(s, w1, WordChars)
    IN  /\ i + n - 1 <= Len(s)
        /\ lower(SubSeq(s, i, i + n - 1)) = S_week_beginning
        /\ d2 >= d1
        /\ d2 + 1 <= Len(s)
        /\ s[d2 + 1] = " "
        /\ w2 >= w1

\* the two groups of the match at position i
WeekGroups(s, i) ==
    LET d1 == i + Len(S_week_beginning)
        d2 == RunEnd(s, d1, Digits)
    IN  <<SubSeq(s, d1, d2), SubSeq(s, d2 + 2, RunEnd(s, d2 + 2, WordChars))>>

\* datetime(y, m, d) inside try / except ValueError: an argument that does not
\* fit a C int is an OverflowError, which the except clause does not catch
datetime_or_None(y, m, day_digits) ==
    IF ExceedsCInt(day_digits) THEN [kind |-> "OverflowError"]
    ELSE IF int(day_digits) >= 1 /\ int(day_digits) <= DaysInMonth(y, m)
    THEN [kind |-> "datetime", year |-> y, month |-> m, day |-> int(day_digits)]
    ELSE None

parse_week_date(title) ==
    IF ~\E i \in 1..Len(title) : WeekMatchAt(title, i) THEN None
    ELSE LET i == CHOOSE i \in 1..Len(title) :
                      WeekMatchAt(title, i) /\ \A j \in 1..(i - 1) : ~WeekMatchAt(title, j)
             g == WeekGroups(title, i)
             month_name == Str(lower(g[2]))
         IN  IF month_name \notin DOMAIN months THEN None
             ELSE datetime_or_None(year, months[month_name], g[1])

----------------------------------------------------------------------------
(* extract_special_notes *)

\* re.findall(r'\([^)]+\)', s): from a "(" to the first ")" after it, with at
\* least one character between them
RECURSIVE FindNotes(_)
FindNotes(s) ==
    IF s = <<>> THEN <<>>
    ELSE IF Head(s) = "(" /\ \E k \in 2..Len(s) : s[k] = ")"
    THEN LET k == CHOOSE k \in 2..Len(s) :
                      s[k] = ")" /\ \A j \in 2..(k - 1) : s[j] # ")"
         IN  IF k > 2
             THEN <<SubSeq(s, 1, k)>> \o FindNotes(SubSeq(s, k + 1, Len(s)))
             ELSE FindNotes(Tail(s))
    ELSE FindNotes(Tail(s))

extract_special_notes(s) == JoinWith(<<" ">>, FindNotes(s))

----------------------------------------------------------------------------
(* The fixed texts of generate_icalendar and generate_debug_info *)

\* 'BEGIN:VCALENDAR'
L_BEGIN_VCALENDAR ==
    <<"B", "E", "G", "I", "N", ":", "V", "C", "A", "L", "E", "N", "D", "A", "R">>

\* 'VERSION:2.0'
L_VERSION ==
    <<"V", "E", "R", "S", "I", "O", "N", ":", "2", ".", "0">>

\* 'PRODID:-//Lee Valley VeloPark//Road Cycling Calendar//EN'
L_PRODID ==
    <<"P", "R", "O", "D", "I", "D", ":", "-", "/", "/", "L", "e", "e", " ", "V", "a",
      "l", "l", "e", "y", " ", "V", "e", "l", "o", "P", "a", "r", "k", "/", "/", "R",
      "o", "a", "d", " ", "C", "y", "c", "l", "i", "n", "g", " ", "C", "a", "l", "e",
      "n", "d", "a", "r", "/", "/", "E", "N">>

\* 'CALSCALE:GREGORIAN'
L_CALSCALE ==
    <<"C", "A", "L", "S", "C", "A", "L", "E", ":", "G", "R", "E", "G", "O", "R", "I",
      "A", "N">>

\* 'METHOD:PUBLISH'
L_METHOD ==
    <<"M", "E", "T", "H", "O", "D", ":", "P", "U", "B", "L", "I", "S", "H">>

\* 'X-WR-CALNAME:'
P_X_WR_CALNAME ==
    <<"X", "-", "W", "R", "-", "C", "A", "L", "N", "A", "M", "E", ":">>

\* 'X-WR-CALDESC:Lee Valley VeloPark Road Cycling opening hours - Auto-updated from website'
L_X_WR_CALDESC ==
    <<"X", "-", "W", "R", "-", "C", "A", "L", "D", "E", "S", "C", ":", "L", "e", "e",
      " ", "V", "a", "l", "l", "e", "y", " ", "V", "e", "l", "o", "P", "a", "r", "k",
      " ", "R", "o", "a", "d", " ", "C", "y", "c", "l", "i", "n", "g", " ", "o", "p",
      "e", "n", "i", "n", "g", " ", "h", "o", "u", "r", "s", " ", "-", " ", "A", "u",
      "t", "o", "-", "u", "p", "d", "a", "t", "e", "d", " ", "f", "r", "o", "m", " ",
      "w", "e", "b", "s", "i", "t", "e">>

\* 'X-WR-TIMEZONE:Europe/London'
L_X_WR_TIMEZONE ==
    <<"X", "-", "W", "R", "-", "T", "I", "M", "E", "Z", "O", "N", "E", ":", "E", "u",
      "r", "o", "p", "e", "/", "L", "o", "n", "d", "o", "n">>

\* 'BEGIN:VEVENT'
L_BEGIN_VEVENT ==
    <<"B", "E", "G", "I", "N", ":", "V", "E", "V", "E", "N", "T">>

\* 'UID:'
P_UID ==
    <<"U", "I", "D", ":">>

\* 'DTSTART:'
P_DTSTART ==
    <<"D", "T", "S", "T", "A", "R", "T", ":">>

\* 'DTEND:'
P_DTEND ==
    <<"D", "T", "E", "N", "D", ":">>

\* 'SUMMARY:'
P_SUMMARY ==
    <<"S", "U", "M", "M", "A", "R", "Y", ":">>

\* 'DESCRIPTION:'
P_DESCRIPTION ==
    <<"D", "E", "S", "C", "R", "I", "P", "T", "I", "O", "N", ":">>

\* 'LOCATION:Lee Valley VeloPark, Abercrombie Road, Queen Elizabeth Olympic Park, London E20 3AB'
L_LOCATION ==
    <<"L", "O", "C", "A", "T", "I", "O", "N", ":", "L", "e", "e", " ", "V", "a", "l",
      "l", "e", "y", " ", "V", "e", "l", "o", "P", "a", "r", "k", ",", " ", "A", "b",
      "e", "r", "c", "r", "o", "m", "b", "i", "e", " ", "R", "o", "a", "d", ",", " ",
      "Q", "u", "e", "e", "n", " ", "E", "l", "i", "z", "a", "b", "e", "t", "h", " ",
      "O", "l", "y", "m", "p", "i", "c", " ", "P", "a", "r", "k", ",", " ", "L", "o",
      "n", "d", "o", "n", " ", "E", "2", "0", " ", "3", "A", "B">>

\* 'URL:https://www.better.org.uk/leisure-centre/lee-valley/velopark/road-cycling'
L_URL ==
    <<"U", "R", "L", ":", "h", "t", "t", "p", "s", ":", "/", "/", "w", "w", "w", ".",
      "b", "e", "t", "t", "e", "r", ".", "o", "r", "g", ".", "u", "k", "/", "l", "e",
      "i", "s", "u", "r", "e", "-", "c", "e", "n", "t", "r", "e", "/", "l", "e", "e",
      "-", "v", "a", "l", "l", "e", "y", "/", "v", "e", "l", "o", "p", "a", "r", "k",
      "/", "r", "o", "a", "d", "-", "c", "y", "c", "l", "i", "n", "g">>

\* 'DTSTAMP:'
P_DTSTAMP ==
    <<"D", "T", "S", "T", "A", "M", "P", ":">>

\* 'END:VEVENT'
L_END_VEVENT ==
    <<"E", "N", "D", ":", "V", "E", "V", "E", "N", "T">>

\* 'END:VCALENDAR'
L_END_VCALENDAR ==
    <<"E", "N", "D", ":", "V", "C", "A", "L", "E", "N", "D", "A", "R">>

\* 'velopark-'
S_uid_prefix ==
    <<"v", "e", "l", "o", "p", "a", "r", "k", "-">>

\* '@leovalley.org.uk'
S_uid_suffix ==
    <<"@", "l", "e", "o", "v", "a", "l", "l", "e", "y", ".", "o", "r", "g", ".", "u",
      "k">>

\* 'Lee Valley VeloPark - Road Circuit Open'
S_summary ==
    <<"L", "e", "e", " ", "V", "a", "l", "l", "e", "y", " ", "V", "e", "l", "o", "P",
      "a", "r", "k", " ", "-", " ", "R", "o", "a", "d", " ", "C", "i", "r", "c", "u",
      "i", "t", " ", "O", "p", "e", "n">>

\* ' (Session '
S_session ==
    <<" ", "(", "S", "e", "s", "s", "i", "o", "n", " ">>

\* 'Road cycling circuit is open for sessions and activities. Last entry one hour before closing.'
S_description ==
    <<"R", "o", "a", "d", " ", "c", "y", "c", "l", "i", "n", "g", " ", "c", "i", "r",
      "c", "u", "i", "t", " ", "i", "s", " ", "o", "p", "e", "n", " ", "f", "o", "r",
      " ", "s", "e", "s", "s", "i", "o", "n", "s", " ", "a", "n", "d", " ", "a", "c",
      "t", "i", "v", "i", "t", "i", "e", "s", ".", " ", "L", "a", "s", "t", " ", "e",
      "n", "t", "r", "y", " ", "o", "n", "e", " ", "h", "o", "u", "r", " ", "b", "e",
      "f", "o", "r", "e", " ", "c", "l", "o", "s", "i", "n", "g", ".">>

\* 'Could not parse week date: '
S_could_not_parse ==
    <<"C", "o", "u", "l", "d", " ", "n", "o", "t", " ", "p", "a", "r", "s", "e", " ",
      "w", "e", "e", "k", " ", "d", "a", "t", "e", ":", " ">>

\* '07:00-14:00 16:00-21:00'
S_friday_pattern ==
    <<"0", "7", ":", "0", "0", "-", "1", "4", ":", "0", "0", " ", "1", "6", ":", "0",
      "0", "-", "2", "1", ":", "0", "0">>

\* 'Friday parsing issue: expected 2 slots, got '
S_friday_issue_1 ==
    <<"F", "r", "i", "d", "a", "y", " ", "p", "a", "r", "s", "i", "n", "g", " ", "i",
      "s", "s", "u", "e", ":", " ", "e", "x", "p", "e", "c", "t", "e", "d", " ", "2",
      " ", "s", "l", "o", "t", "s", ",", " ", "g", "o", "t", " ">>

\* ' for ''
S_friday_issue_2 ==
    <<" ", "f", "o", "r", " ", "'">>

\* 'Friday'
S_Friday ==
    <<"F", "r", "i", "d", "a", "y">>

day_names ==
    <<<<"M", "o", "n", "d", "a", "y">>,
      <<"T", "u", "e", "s", "d", "a", "y">>,
      <<"W", "e", "d", "n", "e", "s", "d", "a", "y">>,
      <<"T", "h", "u", "r", "s", "d", "a", "y">>,
      <<"F", "r", "i", "d", "a", "y">>,
      <<"S", "a", "t", "u", "r", "d", "a", "y">>,
      <<"S", "u", "n", "d", "a", "y">>>>

----------------------------------------------------------------------------
(* generate_icalendar and generate_debug_info *)

RECURSIVE Flatten(_)
Flatten(ss) == IF ss = <<>> THEN <<>> ELSE Head(ss) \o Flatten(Tail(ss))

\* day_names.index(day_name) counted from one
DayIndex_OneBased(day_name) == CHOOSE i \in 1..Len(day_names) : day_names[i] = day_name

\* day_names.index(day_name)
DayIndex(day_name) == (CHOOSE i \in 1..Len(day_names) : day_names[i] = day_name) - 1

\* a membership test that knows only the names Monday to Friday
IsDayName_Weekdays(day_name) == \E i \in 1..5 : day_names[i] = day_name

IsDayName(day_name) == \E i \in 1..Len(day_names) : day_names[i] = day_name

\* the weeks visited when the supplied weeks are repeated to fill weeks_ahead
WeeksVisited_Repeating(sd, wa) ==
    IF sd = <<>> THEN <<>> ELSE [k \in 1..wa |-> sd[((k - 1) % Len(sd)) + 1]]

\* the weeks the loop "for week_title, week_data in schedule_data.items()"
\* visits, in order
WeeksVisited(sd, wa) == sd

\* a week title of the schedule makes parse_week_date raise
Raises(sd) == \E i \in 1..Len(sd) : parse_week_date(sd[i][1]).kind = "OverflowError"

\* a summary that carries the session number also on a day with one window
Summary_AlwaysNumbered(time_slots, slot_index) ==
    S_summary \o S_session \o str(slot_index + 1) \o <<")">>

\* the summary of the event of slot slot_index (counted from 0) of time_slots
Summary(time_slots, slot_index) ==
    IF Len(time_slots) > 1
    THEN S_summary \o S_session \o str(slot_index + 1) \o <<")">>
    ELSE S_summary

\* wrong lines of an event: the notes are appended to the description whether
\* they are wanted or not
EventLines_NotesAlways(event_date, time_slots, slot_index, special_notes, notes_wanted, clock) ==
    LET start_time == time_slots[slot_index + 1][1]
        end_time == time_slots[slot_index + 1][2]
        date_str == strftime_Ymd(event_date)
        start_time_str == RemoveChars(start_time, {":"})
        end_time_str == RemoveChars(end_time, {":"})
        uid == S_uid_prefix \o date_str \o <<"-">> \o start_time_str \o <<"-">>
                   \o str(slot_index) \o S_uid_suffix
        description ==
            IF special_notes # <<>>
            THEN S_description \o <<" ">> \o special_notes
            ELSE S_description
    IN  <<L_BEGIN_VEVENT,
          P_UID \o uid,
          P_DTSTART \o date_str \o <<"T">> \o start_time_str \o <<"0", "0">>,
          P_DTEND \o date_str \o <<"T">> \o end_time_str \o <<"0", "0">>,
          P_SUMMARY \o Summary(time_slots, slot_index),
          P_DESCRIPTION \o description,
          L_LOCATION,
          L_URL,
          P_DTSTAMP \o strftime_stamp(clock),
          L_END_VEVENT>>

\* the lines of the event of slot slot_index (counted from 0) of time_slots
EventLines(event_date, time_slots, slot_index, special_notes, notes_wanted, clock) ==
    LET start_time == time_slots[slot_index + 1][1]
        end_time == time_slots[slot_index + 1][2]
        date_str == strftime_Ymd(event_date)
        start_time_str == RemoveChars(start_time, {":"})
        end_time_str == RemoveChars(end_time, {":"})
        uid == S_uid_prefix \o date_str \o <<"-">> \o start_time_str \o <<"-">>
                   \o str(slot_index) \o S_uid_suffix
        description ==
            IF notes_wanted /\ special_notes # <<>>
            THEN S_description \o <<" ">> \o special_notes
            ELSE S_description
    IN  <<L_BEGIN_VEVENT,
          P_UID \o uid,
          P_DTSTART \o date_str \o <<"T">> \o start_time_str \o <<"0", "0">>,
          P_DTEND \o date_str \o <<"T">> \o end_time_str \o <<"0", "0">>,
          P_SUMMARY \o Summary(time_slots, slot_index),
          P_DESCRIPTION \o description,
          L_LOCATION,
          L_URL,
          P_DTSTAMP \o strftime_stamp(clock),
          L_END_VEVENT>>

\* wrong lines of a day: only its first time slot gets an event
DayLines_FirstSlotOnly(start_date, item, notes_wanted, clock) ==
    IF ~IsDayName(item[1]) \/ parse_time_slots(item[2]) = <<>> THEN <<>>
    ELSE EventLines(PlusDays(start_date, DayIndex(item[1])), parse_time_slots(item[2]), 0,
                    extract_special_notes(item[2]), notes_wanted, clock)

\* the lines of one (day_name, times_str) item of a week
DayLines(start_date, item, notes_wanted, clock) ==
    IF ~IsDayName(item[1]) THEN <<>>
    ELSE LET event_date == PlusDays(start_date, DayIndex(item[1]))
             time_slots == parse_time_slots(item[2])
             special_notes == extract_special_notes(item[2])
         IN  Flatten([k \in 1..Len(time_slots) |->
                         EventLines(event_date, time_slots, k - 1, special_notes,
                                    notes_wanted, clock)])

\* the lines of one (week_title, week_data) item of the schedule
WeekLines(week, notes_wanted, clock) ==
    LET start_date == parse_week_date(week[1])
    IN  IF start_date.kind # "datetime" THEN <<>>
        ELSE Flatten([k \in 1..Len(week[2]) |->
                         DayLines(start_date, week[2][k], notes_wanted, clock)])

\* "\r\n".join(ics_lines): the text of the document
Document(doc) == JoinWith(<<"\r", "\n">>, doc.ics_lines)

\* generate_icalendar: the list ics_lines, which it returns joined by "\r\n";
\* clock is what datetime.utcnow() gives during the call
generate_icalendar(sd, name, notes_wanted, wa, clock) ==
    IF Raises(sd) THEN [kind |-> "OverflowError"]
    ELSE [kind |-> "str",
          ics_lines |->
              <<L_BEGIN_VCALENDAR, L_VERSION, L_PRODID, L_CALSCALE, L_METHOD,
                P_X_WR_CALNAME \o name, L_X_WR_CALDESC, L_X_WR_TIMEZONE>>
              \o Flatten([k \in 1..Len(WeeksVisited(sd, wa)) |->
                             WeekLines(WeeksVisited(sd, wa)[k], notes_wanted, clock)])
              \o <<L_END_VCALENDAR>>]

\* debug_info["parsing_results"][week_title]["days"][day_name] of one
\* (day_name, times_str) item of a week
DayDebug(start_date, item) ==
    LET event_date == PlusDays(start_date, DayIndex(item[1]))
    IN  [original_text |-> item[2],
         parsed_slots |-> parse_time_slots(item[2]),
         special_notes |-> extract_special_notes(item[2]),
         event_date |-> event_date,
         day_of_week |-> day_names[weekday(event_date) + 1]]

\* what one (day_name, times_str) item of a week appends to issues_found
DayIssues(item) ==
    IF item[1] = S_Friday /\ Contains(item[2], S_friday_pattern)
           /\ Len(parse_time_slots(item[2])) # 2
    THEN <<S_friday_issue_1 \o str(Len(parse_time_slots(item[2]))) \o S_friday_issue_2
               \o item[2] \o <<"'">> >>
    ELSE <<>>

\* wrong debug events of a day: dated with the start of the week
DayEvents_WeekStartDate(start_date, item) ==
    LET time_slots == parse_time_slots(item[2])
    IN  [k \in 1..Len(time_slots) |->
            [date |-> strftime_Y_m_d(start_date),
             day_name |-> item[1],
             start_time |-> time_slots[k][1],
             end_time |-> time_slots[k][2],
             summary |-> Summary(time_slots, k - 1),
             session_number |-> k,
             total_sessions |-> Len(time_slots),
             original_text |-> item[2],
             special_notes |-> extract_special_notes(item[2])]]

\* what one (day_name, times_str) item of a week appends to calendar_events
DayEvents(start_date, item) ==
    LET time_slots == parse_time_slots(item[2])
    IN  [k \in 1..Len(time_slots) |->
            [date |-> strftime_Y_m_d(PlusDays(start_date, DayIndex(item[1]))),
             day_name |-> item[1],
             start_time |-> time_slots[k][1],
             end_time |-> time_slots[k][2],
             summary |-> Summary(time_slots, k - 1),
             session_number |-> k,
             total_sessions |-> Len(time_slots),
             original_text |-> item[2],
             special_notes |-> extract_special_notes(item[2])]]

\* the items of a week whose key is one of day_names
DayItems(week) == SelectSeq(week[2], LAMBDA item : IsDayName(item[1]))

\* debug_info["parsing_results"][week_title] of one (week_title, week_data) item
WeekDebug(week) ==
    LET start_date == parse_week_date(week[1])
    IN  [week_start_date |-> start_date,
         days |->
             IF start_date.kind # "datetime" THEN <<>>
             ELSE [k \in 1..Len(DayItems(week)) |->
                      <<DayItems(week)[k][1], DayDebug(start_date, DayItems(week)[k])>>]]

\* what one (week_title, week_data) item appends to issues_found
WeekIssues(week) ==
    IF parse_week_date(week[1]).kind # "datetime"
    THEN <<S_could_not_parse \o week[1]>>
    ELSE Flatten([k \in 1..Len(DayItems(week)) |-> DayIssues(DayItems(week)[k])])

\* what one (week_title, week_data) item appends to calendar_events
WeekEvents(week) ==
    LET start_date == parse_week_date(week[1])
    IN  IF start_date.kind # "datetime" THEN <<>>
        ELSE Flatten([k \in 1..Len(DayItems(week)) |->
                         DayEvents(start_date, DayItems(week)[k])])

\* debug_info["calendar_events"]
calendar_events(sd, wa) ==
    Flatten([k \in 1..Len(WeeksVisited(sd, wa)) |-> WeekEvents(WeeksVisited(sd, wa)[k])])

\* debug_info["issues_found"]
issues_found(sd, wa) ==
    Flatten([k \in 1..Len(WeeksVisited(sd, wa)) |-> WeekIssues(WeeksVisited(sd, wa)[k])])

generate_debug_info(sd, wa) ==
    IF Raises(sd) THEN [kind |-> "OverflowError"]
    ELSE [kind |-> "dict",
          schedule_data |-> sd,
          parsing_results |->
              [k \in 1..Len(WeeksVisited(sd, wa)) |->
                  <<WeeksVisited(sd, wa)[k][1], WeekDebug(WeeksVisited(sd, wa)[k])>>],
          calendar_events |-> calendar_events(sd, wa),
          issues_found |-> issues_found(sd, wa),
          summary |-> [total_weeks |-> Len(sd),
                       total_events |-> Len(calendar_events(sd, wa)),
                       issues_count |-> Len(issues_found(sd, wa))]]

----------------------------------------------------------------------------
(* The calls: what each variable holds while its function is not under study *)

NoClock == [year |-> year, month |-> 1, day |-> 1, hour |-> 0, minute |-> 0, second |-> 0]

Clock(y, m, d) == [year |-> y, month |-> m, day |-> d, hour |-> 12, minute |-> 30, second |-> 59]

NoWeekCall == week_title = <<>> /\ week_start_date = None

NoSlotsCall ==
    parts = <<>> /\ sep = <<>> /\ times_str = <<>> /\ slots = <<>> /\ notes = <<>>

NoGenerateCall ==
    /\ schedule_data = <<>>
    /\ calendar_name = <<>>
    /\ include_notes = FALSE
    /\ weeks_ahead = 0
    /\ ics_content = None
    /\ debug_info = None

NoRequest == page = None /\ query_params = None /\ response = None

----------------------------------------------------------------------------
(* parse_week_date called on a title, at some moment of the clock *)

\* what a title starts with: 'Week beginning ', 'xx WEEK BEGINNING ', 'Week of '
TitlePrefixes ==
    {<<"W", "e", "e", "k", " ", "b", "e", "g", "i", "n", "n", "i", "n", "g", " ">>,
     <<"x", "x", " ", "W", "E", "E", "K", " ", "B", "E", "G", "I", "N", "N", "I", "N", "G", " ">>,
     <<"W", "e", "e", "k", " ", "o", "f", " ">>}

\* the day number of a title
TitleDays ==
    {<<"0">>,
     <<"1">>,
     <<"6">>,
     <<"2", "6">>,
     <<"2", "9">>,
     <<"3", "0">>,
     <<"3", "1">>,
     <<"3", "2">>,
     <<"0", "2", "6">>,
     <<"2", "1", "4", "7", "4", "8", "3", "6", "4", "7">>,
     <<"2", "1", "4", "7", "4", "8", "3", "6", "4", "8">>,
     <<"9", "9", "9", "9", "9", "9", "9", "9", "9", "9", "9">>}

\* between the day number and the month: one space, two spaces
TitleGaps ==
    {<<" ">>,
     <<" ", " ">>}

\* the month word of a title: full names, abbreviations, and words that are no month
TitleMonths ==
    {<<"J", "a", "n", "u", "a", "r", "y">>,
     <<"j", "a", "n">>,
     <<"F", "e", "b", "r", "u", "a", "r", "y">>,
     <<"F", "E", "B">>,
     <<"M", "a", "r", "c", "h">>,
     <<"m", "a", "r">>,
     <<"A", "p", "r", "i", "l">>,
     <<"a", "p", "r">>,
     <<"M", "a", "y">>,
     <<"M", "A", "Y">>,
     <<"J", "u", "n", "e">>,
     <<"J", "u", "n">>,
     <<"J", "u", "l", "y">>,
     <<"j", "u", "l">>,
     <<"A", "u", "g", "u", "s", "t">>,
     <<"a", "u", "g">>,
     <<"S", "e", "p", "t", "e", "m", "b", "e", "r">>,
     <<"s", "e", "p">>,
     <<"S", "e", "p", "t">>,
     <<"O", "c", "t", "o", "b", "e", "r">>,
     <<"o", "c", "t">>,
     <<"N", "o", "v", "e", "m", "b", "e", "r">>,
     <<"n", "o", "v">>,
     <<"D", "e", "c", "e", "m", "b", "e", "r">>,
     <<"D", "E", "C">>,
     <<"M", "a", "i">>,
     <<"M", "a", "y", "2", "0", "2", "5">>}

T_InvalidFormat == <<"I", "n", "v", "a", "l", "i", "d", " ", "f", "o", "r", "m", "a", "t">>

WeekTitles ==
    {p \o d \o g \o m : p \in TitlePrefixes, d \in TitleDays, g \in TitleGaps, m \in TitleMonths}
        \cup {T_InvalidFormat}

\* the moments the clock is read at
Nows ==
    {Clock(2024, 12, 1), Clock(2024, 12, 31), Clock(2025, 1, 15), Clock(2025, 2, 28),
     Clock(2025, 5, 15), Clock(2025, 12, 15), Clock(2026, 1, 3), Clock(2026, 11, 2)}

InitWeek ==
    /\ returned = {}
    /\ NoRequest
    /\ heap = <<>>
    /\ calls = <<>>
    /\ now \in Nows
    /\ week_title \in WeekTitles
    /\ week_start_date = None
    /\ NoSlotsCall
    /\ NoGenerateCall

ParseWeekDate ==
    /\ "parse_week_date" \notin returned
    /\ week_start_date' = parse_week_date(week_title)
    /\ returned' = returned \cup {"parse_week_date"}
    /\ UNCHANGED <<now, week_title, parts, sep, times_str, slots, notes,
                   schedule_data, calendar_name, include_notes, weeks_ahead,
                   ics_content, debug_info, requestVars, heap, calls>>

NextWeek == ParseWeekDate

SpecWeek == InitWeek /\ [][NextWeek]_vars

----------------------------------------------------------------------------
(* parse_time_slots called on a day string *)

\* a day string is made of at most MaxParts pieces
MaxParts == 3

R_0700_1400 == <<"0", "7", ":", "0", "0", "-", "1", "4", ":", "0", "0">>

R_1600_2100 == <<"1", "6", ":", "0", "0", "-", "2", "1", ":", "0", "0">>

\* '09:00 - 08:00': spaces around the dash, and an end before the start
R_0900_0800 == <<"0", "9", ":", "0", "0", " ", "-", " ", "0", "8", ":", "0", "0">>

\* '(10:00-17:00 loop)'
N_LoopOnly == <<"(", "1", "0", ":", "0", "0", "-", "1", "7", ":", "0", "0", " ", "l", "o", "o", "p", ")">>

\* '(CLOSED am)'
N_Closed == <<"(", "C", "L", "O", "S", "E", "D", " ", "a", "m", ")">>

W_Closed == <<"C", "l", "o", "s", "e", "d">>

T_1200 == <<"1", "2", ":", "0", "0">>

\* the well-formed ranges, and the slot each one names
RangeChunks == {R_0700_1400, R_1600_2100, R_0900_0800}

SlotOfChunk(r) ==
    IF r = R_0700_1400 THEN <<SubSeq(r, 1, 5), SubSeq(r, 7, 11)>>
    ELSE IF r = R_1600_2100 THEN <<SubSeq(r, 1, 5), SubSeq(r, 7, 11)>>
    ELSE <<SubSeq(r, 1, 5), SubSeq(r, 9, 13)>>

\* the pieces that hold the word 'closed' in some letter case
ClosedChunks == {W_Closed, N_Closed}

SlotChunks ==
    RangeChunks \cup ClosedChunks
        \cup {N_LoopOnly, T_1200, <<"(">>, <<")">>, <<"-">>, <<"\t", " ">>}

PartLists == UNION {[1..n -> SlotChunks] : n \in 0..MaxParts}

Separators == {<<>>, <<" ">>}

InitSlots ==
    /\ returned = {}
    /\ now = NoClock
    /\ parts \in PartLists
    /\ sep \in Separators
    /\ times_str = JoinWith(sep, parts)
    /\ slots = <<>>
    /\ notes = <<>>
    /\ NoWeekCall
    /\ NoGenerateCall
    /\ NoRequest
    /\ heap = <<>>
    /\ calls = <<>>

ParseTimeSlots ==
    /\ "parse_time_slots" \notin returned
    /\ slots' = parse_time_slots(times_str)
    /\ returned' = returned \cup {"parse_time_slots"}
    /\ UNCHANGED <<now, week_title, week_start_date, parts, sep, times_str,
                   notes, schedule_data, calendar_name, include_notes,
                   weeks_ahead, ics_content, debug_info, requestVars, heap, calls>>

ExtractSpecialNotes ==
    /\ "extract_special_notes" \notin returned
    /\ notes' = extract_special_notes(times_str)
    /\ returned' = returned \cup {"extract_special_notes"}
    /\ UNCHANGED <<now, week_title, week_start_date, parts, sep, times_str, slots,
                   schedule_data, calendar_name, include_notes, weeks_ahead,
                   ics_content, debug_info, requestVars, heap, calls>>

NextSlots == ParseTimeSlots \/ ExtractSpecialNotes

SpecSlots == InitSlots /\ [][NextSlots]_vars

----------------------------------------------------------------------------
(* generate_icalendar and generate_debug_info called on a schedule *)

\* a schedule holds at most MaxWeeks weeks
MaxWeeks == 2

\* 'Week beginning 26 May'
T_26_May ==
    <<"W", "e", "e", "k", " ", "b", "e", "g", "i", "n", "n", "i", "n", "g", " ", "2",
      "6", " ", "M", "a", "y">>

\* 'Week beginning 2 June'
T_2_June ==
    <<"W", "e", "e", "k", " ", "b", "e", "g", "i", "n", "n", "i", "n", "g", " ", "2",
      " ", "J", "u", "n", "e">>

\* 'week beginning 29 dec'
T_29_dec ==
    <<"w", "e", "e", "k", " ", "b", "e", "g", "i", "n", "n", "i", "n", "g", " ", "2",
      "9", " ", "d", "e", "c">>

\* 'Week beginning 2147483648 May'
T_huge_May ==
    <<"W", "e", "e", "k", " ", "b", "e", "g", "i", "n", "n", "i", "n", "g", " ", "2",
      "1", "4", "7", "4", "8", "3", "6", "4", "8", " ", "M", "a", "y">>

\* '09:00-16:00 (Bank Holiday)'
D_BankHoliday ==
    <<"0", "9", ":", "0", "0", "-", "1", "6", ":", "0", "0", " ", "(", "B", "a", "n",
      "k", " ", "H", "o", "l", "i", "d", "a", "y", ")">>

\* '07:00-14:00 16:00-21:00 (16:30-17:30 loop only)'
D_TwoSessions ==
    <<"0", "7", ":", "0", "0", "-", "1", "4", ":", "0", "0", " ", "1", "6", ":", "0",
      "0", "-", "2", "1", ":", "0", "0", " ", "(", "1", "6", ":", "3", "0", "-", "1",
      "7", ":", "3", "0", " ", "l", "o", "o", "p", " ", "o", "n", "l", "y", ")">>

\* 'Closed'
D_Closed ==
    <<"C", "l", "o", "s", "e", "d">>

\* '07:00-21:00'
D_0700_2100 ==
    <<"0", "7", ":", "0", "0", "-", "2", "1", ":", "0", "0">>

\* '14:00-18:00'
D_1400_1800 ==
    <<"1", "4", ":", "0", "0", "-", "1", "8", ":", "0", "0">>

\* 'Monday'
K_Monday ==
    <<"M", "o", "n", "d", "a", "y">>

\* 'Friday'
K_Friday ==
    <<"F", "r", "i", "d", "a", "y">>

\* 'Sunday'
K_Sunday ==
    <<"S", "u", "n", "d", "a", "y">>

\* 'monday'
K_monday ==
    <<"m", "o", "n", "d", "a", "y">>

\* 'Test Calendar'
N_TestCalendar ==
    <<"T", "e", "s", "t", " ", "C", "a", "l", "e", "n", "d", "a", "r">>

\* the week titles of a schedule: three that resolve (the last one to a week
\* that ends in the next year), one that does not, one whose day is too large
GenTitles == {T_26_May, T_2_June, T_29_dec, T_InvalidFormat, T_huge_May}

K_Tuesday == <<"T", "u", "e", "s", "d", "a", "y">>

\* '09:00-16:00 (Bank<LF>Holiday)': a note that runs over two lines of the page
D_NoteTwoLines ==
    <<"0", "9", ":", "0", "0", "-", "1", "6", ":", "0", "0", " ",
      "(", "B", "a", "n", "k", "\n", "H", "o", "l", "i", "d", "a", "y", ")">>

\* '07:00-24:00': open until midnight, written as hour 24
D_0700_2400 == <<"0", "7", ":", "0", "0", "-", "2", "4", ":", "0", "0">>

\* the day schedules of a week, each an ordered mapping day name -> text
WD_Mixed ==
    <<(<<K_Monday, D_BankHoliday>>), <<K_Friday, D_TwoSessions>>, <<K_Sunday, D_Closed>> >>

WD_SundayFirst ==
    <<(<<K_Sunday, D_1400_1800>>), <<K_monday, D_0700_2100>>, <<K_Monday, D_0700_2100>> >>

WD_SundayOnly == <<(<<K_Sunday, D_TwoSessions>>)>>

WD_Late == <<(<<K_Monday, D_0700_2400>>), <<K_Tuesday, D_NoteTwoLines>> >>

GenWeekData == {WD_Mixed, WD_SundayFirst, WD_SundayOnly, WD_Late}

\* the weeks of a schedule: a title and the day schedule under it
GenWeeks ==
    {w \in GenTitles \X GenWeekData :
        \/ w[1] = T_26_May /\ w[2] \in {WD_Mixed, WD_SundayFirst}
        \/ w[1] = T_2_June /\ w[2] \in {WD_SundayFirst, WD_Late}
        \/ w[1] = T_29_dec /\ w[2] \in {WD_SundayFirst, WD_SundayOnly}
        \/ w[1] = T_InvalidFormat /\ w[2] = WD_Mixed
        \/ w[1] = T_huge_May /\ w[2] = WD_SundayFirst}

\* the schedules: at most MaxWeeks weeks, no title twice (the titles are the
\* keys of a dict)
Schedules ==
    {sd \in UNION {[1..n -> GenWeeks] : n \in 0..MaxWeeks} :
        \A i, j \in 1..Len(sd) : i # j => sd[i][1] # sd[j][1]}
    \cup
    \* two schedules whose weeks overlap: 'week beginning 26 may' after 'Week
    \* beginning 26 May', and 'Week beginning 1 June' after a Sunday of the
    \* week of 26 May
    {<<(<<T_26_May, WD_Mixed>>), <<lower(T_26_May), WD_Mixed>> >>,
     <<(<<T_26_May, WD_SundayOnly>>), <<[T_2_June EXCEPT ![16] = "1"], WD_SundayFirst>> >>}

\* the horizons asked for: fewer weeks than a schedule holds, and more
WeeksAheadValues == {1, 20}

InitGenerate ==
    /\ returned = {}
    /\ now = Clock(2025, 5, 15)
    /\ schedule_data \in Schedules
    /\ calendar_name = N_TestCalendar
    /\ include_notes \in BOOLEAN
    /\ weeks_ahead \in WeeksAheadValues
    /\ ics_content = None
    /\ debug_info = None
    /\ NoWeekCall
    /\ NoSlotsCall
    /\ NoRequest
    /\ heap = <<>>
    /\ calls = <<>>

GenerateICalendar ==
    /\ "generate_icalendar" \notin returned
    /\ ics_content' =
           generate_icalendar(schedule_data, calendar_name, include_notes, weeks_ahead, now)
    /\ returned' = returned \cup {"generate_icalendar"}
    /\ UNCHANGED <<now, week_title, week_start_date, parts, sep, times_str, slots,
                   notes, schedule_data, calendar_name, include_notes,
                   weeks_ahead, debug_info, requestVars, heap, calls>>

GenerateDebugInfo ==
    /\ "generate_debug_info" \notin returned
    /\ debug_info' = generate_debug_info(schedule_data, weeks_ahead)
    /\ returned' = returned \cup {"generate_debug_info"}
    /\ UNCHANGED <<now, week_title, week_start_date, parts, sep, times_str, slots,
                   notes, schedule_data, calendar_name, include_notes,
                   weeks_ahead, ics_content, requestVars, heap, calls>>

Next == GenerateICalendar \/ GenerateDebugInfo

Spec == InitGenerate /\ [][Next]_vars

----------------------------------------------------------------------------
(* scrape_velopark_schedule and handler.do_GET *)

\* the string constants of do_GET and scrape_velopark_schedule
Strings ==
    [\* 'Lee Valley VeloPark - Road Cycling'
     default_name |->
         <<"L", "e", "e", " ", "V", "a", "l", "l", "e", "y", " ", "V", "e", "l", "o", "P",
           "a", "r", "k", " ", "-", " ", "R", "o", "a", "d", " ", "C", "y", "c", "l", "i",
           "n", "g">>,
     \* 'true'
     true |->
         <<"t", "r", "u", "e">>,
     \* 'false'
     false |->
         <<"f", "a", "l", "s", "e">>,
     \* '8'
     eight |->
         <<"8">>,
     \* 'ics'
     ics |->
         <<"i", "c", "s">>,
     \* 'json'
     json |->
         <<"j", "s", "o", "n">>,
     \* 'debug'
     debug |->
         <<"d", "e", "b", "u", "g">>,
     \* ' - '
     item_separator |->
         <<" ", "-", " ">>,
     \* 'Could not find schedule section on the website'
     no_section |->
         <<"C", "o", "u", "l", "d", " ", "n", "o", "t", " ", "f", "i", "n", "d", " ", "s",
           "c", "h", "e", "d", "u", "l", "e", " ", "s", "e", "c", "t", "i", "o", "n", " ",
           "o", "n", " ", "t", "h", "e", " ", "w", "e", "b", "s", "i", "t", "e">>,
     \* 'No schedule data found on the website'
     no_data |->
         <<"N", "o", " ", "s", "c", "h", "e", "d", "u", "l", "e", " ", "d", "a", "t", "a",
           " ", "f", "o", "u", "n", "d", " ", "o", "n", " ", "t", "h", "e", " ", "w", "e",
           "b", "s", "i", "t", "e">>,
     \* 'Failed to fetch website: '
     failed_fetch |->
         <<"F", "a", "i", "l", "e", "d", " ", "t", "o", " ", "f", "e", "t", "c", "h", " ",
           "w", "e", "b", "s", "i", "t", "e", ":", " ">>,
     \* 'Failed to parse schedule: '
     failed_parse |->
         <<"F", "a", "i", "l", "e", "d", " ", "t", "o", " ", "p", "a", "r", "s", "e", " ",
           "s", "c", "h", "e", "d", "u", "l", "e", ":", " ">>,
     \* 'Error: '
     Error |->
         <<"E", "r", "r", "o", "r", ":", " ">>,
     \* 'invalid literal for int() with base 10: '
     invalid_literal |->
         <<"i", "n", "v", "a", "l", "i", "d", " ", "l", "i", "t", "e", "r", "a", "l", " ",
           "f", "o", "r", " ", "i", "n", "t", "(", ")", " ", "w", "i", "t", "h", " ", "b",
           "a", "s", "e", " ", "1", "0", ":", " ">>,
     \* 'signed integer is greater than maximum'
     overflow |->
         <<"s", "i", "g", "n", "e", "d", " ", "i", "n", "t", "e", "g", "e", "r", " ", "i",
           "s", " ", "g", "r", "e", "a", "t", "e", "r", " ", "t", "h", "a", "n", " ", "m",
           "a", "x", "i", "m", "u", "m">>,
     \* "'utf-8' codec can't encode character '\ud800' in position "
     cannot_encode |->
         <<"'", "u", "t", "f", "-", "8", "'", " ", "c", "o", "d", "e", "c", " ", "c", "a",
           "n", "'", "t", " ", "e", "n", "c", "o", "d", "e", " ", "c", "h", "a", "r", "a",
           "c", "t", "e", "r", " ", "'", "\\", "u", "d", "8", "0", "0", "'", " ", "i", "n",
           " ", "p", "o", "s", "i", "t", "i", "o", "n", " ">>,
     \* ': surrogates not allowed'
     surrogates_not_allowed |->
         <<":", " ", "s", "u", "r", "r", "o", "g", "a", "t", "e", "s", " ", "n", "o", "t",
           " ", "a", "l", "l", "o", "w", "e", "d">>,
     \* the one character U+D800, a lone surrogate, which no other character
     \* of the model is
     lone_surrogate |-> <<"U+D800">>]

\* d[key] = value on an ordered mapping (a dict): a key that is present keeps
\* its place and takes the new value, a new key goes to the end
DictSet(d, key, value) ==
    IF \E i \in 1..Len(d) : d[i][1] = key
    THEN [i \in 1..Len(d) |-> IF d[i][1] = key THEN <<key, value>> ELSE d[i]]
    ELSE Append(d, <<key, value>>)

\* scrape_velopark_schedule: the schedule of the page, or the exception raised
\* with its message.  The page is what requests and BeautifulSoup give: a
\* RequestException, or the week sections of the schedule section with their
\* heading and the texts of their list items.
scrape_velopark_schedule(pg) ==
    LET Exception(message) == [kind |-> "Exception", message |-> message]
        \* one more than the number of characters before the first separator
        \* of the text, or 0 without a separator
        SeparatorAt(text) ==
            IF Contains(text, Strings.item_separator)
            THEN CHOOSE i \in 1..Len(text) :
                     /\ SubSeq(text, i, i + Len(Strings.item_separator) - 1)
                            = Strings.item_separator
                     /\ \A j \in 1..(i - 1) :
                            SubSeq(text, j, j + Len(Strings.item_separator) - 1)
                                # Strings.item_separator
            ELSE 0
        \* week_data of the list items of one week: text.split(' - ', 1), and
        \* an item without the separator is left out
        RECURSIVE WeekDataOf(_, _)
        WeekDataOf(list_items, week_data) ==
            IF list_items = <<>> THEN week_data
            ELSE IF SeparatorAt(Head(list_items)) = 0
            THEN WeekDataOf(Tail(list_items), week_data)
            ELSE WeekDataOf(
                     Tail(list_items),
                     DictSet(week_data,
                             strip(SubSeq(Head(list_items), 1,
                                          SeparatorAt(Head(list_items)) - 1)),
                             strip(SubSeq(Head(list_items),
                                          SeparatorAt(Head(list_items))
                                              + Len(Strings.item_separator),
                                          Len(Head(list_items))))))
        \* schedule_data of the week sections: a section without a heading, or
        \* without a list whose items give a day, is left out
        RECURSIVE ScheduleOf(_, _)
        ScheduleOf(week_sections, sd) ==
            IF week_sections = <<>> THEN sd
            ELSE IF \/ ~Head(week_sections).has_heading
                    \/ WeekDataOf(Head(week_sections).list_items, <<>>) = <<>>
            THEN ScheduleOf(Tail(week_sections), sd)
            ELSE ScheduleOf(Tail(week_sections),
                            DictSet(sd, Head(week_sections).week_title,
                                    WeekDataOf(Head(week_sections).list_items, <<>>)))
    IN  IF pg.kind = "RequestException"
        THEN Exception(Strings.failed_fetch \o pg.error)
        ELSE IF ~pg.has_section
        THEN Exception(Strings.failed_parse \o Strings.no_section)
        ELSE IF ScheduleOf(pg.week_sections, <<>>) = <<>>
        THEN Exception(Strings.failed_parse \o Strings.no_data)
        ELSE [kind |-> "dict", schedule_data |-> ScheduleOf(pg.week_sections, <<>>)]

\* the parameters of do_GET, each query_params.get(key, [default])[0]; weeks is
\* the string that int() is given
Params(q) ==
    LET ParamOf(values, default) == IF values = <<>> THEN default ELSE values[1]
    IN  [calendar_name |-> ParamOf(q.name, Strings.default_name),
         include_notes |-> lower(ParamOf(q.notes, Strings.true)) = Strings.true,
         weeks |-> ParamOf(q.weeks, Strings.eight),
         format_type |-> ParamOf(q.format, Strings.ics),
         debug |-> lower(ParamOf(q.debug, Strings.false)) = Strings.true]

\* the except clause of do_GET: status 500 and 'Error: <str(e)>' as plain text
ErrorResponse(message) ==
    [status |-> 500, content_type |-> "text/plain",
     body |-> [kind |-> "text", text |-> Strings.Error \o message]]

\* a do_GET that looks at format=json before it looks at the debug flag
AnswerFor_JsonFirst(q, sd, clock) ==
    LET Json(of, value) ==
            [status |-> 200, content_type |-> "application/json",
             body |-> [kind |-> "json", of |-> of, value |-> value]]
        Debug(d) ==
            IF d.kind = "dict" THEN <<Json("debug_info", d)>>
            ELSE <<ErrorResponse(Strings.overflow)>>
        Headers == [status |-> 200, content_type |-> "text/calendar; charset=utf-8"]
        \* the number of characters before the first lone surrogate of text
        BeforeSurrogate(text) ==
            CHOOSE n \in 0..(Len(text) - 1) :
                /\ text[n + 1] = Strings.lone_surrogate[1]
                /\ \A j \in 1..n : text[j] # Strings.lone_surrogate[1]
        Calendar(doc) ==
            IF doc.kind # "str" THEN <<ErrorResponse(Strings.overflow)>>
            ELSE IF Contains(Document(doc), Strings.lone_surrogate)
            THEN <<[status |-> Headers.status, content_type |-> Headers.content_type,
                    body |-> None],
                   ErrorResponse(Strings.cannot_encode
                                     \o str(BeforeSurrogate(Document(doc)))
                                     \o Strings.surrogates_not_allowed)>>
            ELSE <<[status |-> Headers.status, content_type |-> Headers.content_type,
                    body |-> [kind |-> "text", text |-> Document(doc)]]>>
    IN  IF Params(q).format_type = Strings.json
        THEN <<Json("schedule_data", sd)>>
        ELSE IF Params(q).debug \/ Params(q).format_type = Strings.debug
        THEN Debug(generate_debug_info(sd, int(Params(q).weeks)))
        ELSE Calendar(generate_icalendar(sd, Params(q).calendar_name,
                                         Params(q).include_notes,
                                         int(Params(q).weeks), clock))

\* do_GET once the schedule is scraped: the branch on debug and format_type,
\* as the sequence of the responses sent (status line, headers, body).
\* A JSON body is json.dumps of a value, which escapes what is not ASCII: the
\* model keeps the value and the name of what was serialized.  A generator
\* that raises is answered by the except clause.  The calendar is encoded
\* after its status line and headers are sent: a lone surrogate in the
\* document makes encode('utf-8') raise UnicodeEncodeError, the body is not
\* written (None), and the except clause sends its response after the first.
AnswerFor(q, sd, clock) ==
    LET Json(of, value) ==
            [status |-> 200, content_type |-> "application/json",
             body |-> [kind |-> "json", of |-> of, value |-> value]]
        Debug(d) ==
            IF d.kind = "dict" THEN <<Json("debug_info", d)>>
            ELSE <<ErrorResponse(Strings.overflow)>>
        Headers == [status |-> 200, content_type |-> "text/calendar; charset=utf-8"]
        \* the number of characters before the first lone surrogate of text
        BeforeSurrogate(text) ==
            CHOOSE n \in 0..(Len(text) - 1) :
                /\ text[n + 1] = Strings.lone_surrogate[1]
                /\ \A j \in 1..n : text[j] # Strings.lone_surrogate[1]
        Calendar(doc) ==
            IF doc.kind # "str" THEN <<ErrorResponse(Strings.overflow)>>
            ELSE IF Contains(Document(doc), Strings.lone_surrogate)
            THEN <<[status |-> Headers.status, content_type |-> Headers.content_type,
                    body |-> None],
                   ErrorResponse(Strings.cannot_encode
                                     \o str(BeforeSurrogate(Document(doc)))
                                     \o Strings.surrogates_not_allowed)>>
            ELSE <<[status |-> Headers.status, content_type |-> Headers.content_type,
                    body |-> [kind |-> "text", text |-> Document(doc)]]>>
    IN  IF Params(q).debug \/ Params(q).format_type = Strings.debug
        THEN Debug(generate_debug_info(sd, int(Params(q).weeks)))
        ELSE IF Params(q).format_type = Strings.json
        THEN <<Json("schedule_data", sd)>>
        ELSE Calendar(generate_icalendar(sd, Params(q).calendar_name,
                                         Params(q).include_notes,
                                         int(Params(q).weeks), clock))

\* do_GET: the responses it sends, in order.  int() of weeks raises ValueError
\* before the page is scraped.
do_GET(q, pg, clock) ==
    LET IsInt(s) == s # <<>> /\ \A i \in 1..Len(s) : s[i] \in Digits
    IN  IF ~IsInt(Params(q).weeks)
        THEN <<ErrorResponse(Strings.invalid_literal
                                 \o <<"'">> \o Params(q).weeks \o <<"'">>)>>
        ELSE IF scrape_velopark_schedule(pg).kind = "Exception"
        THEN <<ErrorResponse(scrape_velopark_schedule(pg).message)>>
        ELSE AnswerFor(q, scrape_velopark_schedule(pg).schedule_data, clock)

----------------------------------------------------------------------------
(* The requests: handler.do_GET on a query and a page, SpecRequest *)

\* what the website can serve: no answer, a page without the schedule section,
\* a page without weeks, a page whose sections give no week, and pages with
\* one week, two weeks, a week whose title has a day too large, and a week
\* with a note that holds a lone surrogate
Pages ==
    LET
        \* 'Monday - 07:00 - 21:00'
        LI_Monday ==
            <<"M", "o", "n", "d", "a", "y", " ", "-", " ", "0", "7", ":", "0", "0", " ",
              "-", " ", "2", "1", ":", "0", "0">>
        \* 'Friday - 07:00-14:00 16:00-21:00 (16:30-17:30 Abercrombie loop only)'
        LI_Friday ==
            <<"F", "r", "i", "d", "a", "y", " ", "-", " ", "0", "7", ":", "0", "0", "-",
              "1", "4", ":", "0", "0", " ", "1", "6", ":", "0", "0", "-", "2", "1", ":",
              "0", "0", " ", "(", "1", "6", ":", "3", "0", "-", "1", "7", ":", "3", "0",
              " ", "A", "b", "e", "r", "c", "r", "o", "m", "b", "i", "e", " ", "l", "o",
              "o", "p", " ", "o", "n", "l", "y", ")">>
        \* 'Sunday - Closed'
        LI_Sunday ==
            <<"S", "u", "n", "d", "a", "y", " ", "-", " ", "C", "l", "o", "s", "e", "d">>
        \* 'Opening hours may change'
        LI_NoSeparator ==
            <<"O", "p", "e", "n", "i", "n", "g", " ", "h", "o", "u", "r", "s", " ", "m",
              "a", "y", " ", "c", "h", "a", "n", "g", "e">>
        \* 'Read timed out.'
        timed_out ==
            <<"R", "e", "a", "d", " ", "t", "i", "m", "e", "d", " ", "o", "u", "t", ".">>
        \* 'Monday - 07:00-21:00 (<U+D800>)': a note with a lone surrogate in
        \* the text of the list item
        LI_Surrogate ==
            <<"M", "o", "n", "d", "a", "y", " ", "-", " ", "0", "7", ":", "0", "0", "-",
              "2", "1", ":", "0", "0", " ", "(">> \o Strings.lone_surrogate \o <<")">>
        Section(has_heading, title, list_items) ==
            [has_heading |-> has_heading, week_title |-> title, list_items |-> list_items]
        Page(kind, has_section, week_sections, error) ==
            [kind |-> kind, has_section |-> has_section,
             week_sections |-> week_sections, error |-> error]
    IN  {Page("RequestException", FALSE, <<>>, timed_out),
         Page("html", FALSE, <<>>, <<>>),
         Page("html", TRUE, <<>>, <<>>),
         Page("html", TRUE, <<Section(FALSE, <<>>, <<LI_Monday>>),
                              Section(TRUE, T_26_May, <<LI_NoSeparator>>)>>, <<>>),
         Page("html", TRUE,
              <<Section(TRUE, T_26_May, <<LI_Monday, LI_NoSeparator, LI_Sunday>>)>>, <<>>),
         Page("html", TRUE, <<Section(TRUE, T_26_May, <<LI_Monday, LI_Sunday>>),
                              Section(TRUE, T_InvalidFormat, <<>>),
                              Section(TRUE, T_2_June, <<LI_Friday, LI_Monday>>)>>, <<>>),
         Page("html", TRUE, <<Section(TRUE, T_huge_May, <<LI_Monday>>)>>, <<>>),
         Page("html", TRUE, <<Section(TRUE, T_2_June, <<LI_Surrogate>>)>>, <<>>)}

\* the parameters of a request, as parse_qs gives them: for each name the list
\* of its values, empty when the name is absent
Queries ==
    [name : {<<>>, <<N_TestCalendar>>},
     notes : {<<>>, <<Strings.false>>},
     weeks : {<<>>, <<<<"1", "2">>>>, <<<<"a", "b", "c">>>>},
     format : {<<>>, <<Strings.ics>>, <<Strings.json>>, <<Strings.debug>>,
               <<<<"J", "S", "O", "N">>>>},
     debug : {<<>>, <<Strings.true>>, <<<<"T", "R", "U", "E">>>>, <<Strings.false>>}]

InitRequest ==
    /\ returned = {}
    /\ now = Clock(2025, 5, 15)
    /\ page \in Pages
    /\ query_params \in Queries
    /\ response = None
    /\ heap = <<>>
    /\ calls = <<>>
    /\ NoWeekCall
    /\ NoSlotsCall
    /\ NoGenerateCall

DoGET ==
    /\ "do_GET" \notin returned
    /\ response' = do_GET(query_params, page, now)
    /\ returned' = returned \cup {"do_GET"}
    /\ UNCHANGED <<now, week_title, week_start_date, parts, sep, times_str, slots, notes,
                   schedule_data, calendar_name, include_notes, weeks_ahead,
                   ics_content, debug_info, page, query_params, heap, calls>>

NextRequest == DoGET

SpecRequest == InitRequest /\ [][NextRequest]_vars

----------------------------------------------------------------------------
(* Two invocations of the generators that run at the same time *)

\* An invocation is a frame: the function, its arguments (schedule_data is a
\* reference to an object of the heap), the number of weeks its loop has
\* visited, its local lists, and its result once it has returned or raised.
\* A step of an invocation is one pass of its loop over the weeks, or its
\* return; the steps of two invocations interleave.

\* a pass that empties the day schedule of the week it has visited, in the
\* schedule it was passed
RunWeek_Clearing(c, hp, clock) ==
    LET sd == hp[c.schedule_data]
    IN  IF c.pos >= Len(sd)
        THEN [heap |-> hp,
              call |-> [c EXCEPT !.result =
                           IF c.fn = "generate_icalendar"
                           THEN [kind |-> "str", ics_lines |-> c.ics_lines \o <<L_END_VCALENDAR>>]
                           ELSE [kind |-> "dict",
                                 schedule_data |-> sd,
                                 parsing_results |-> c.parsing_results,
                                 calendar_events |-> c.calendar_events,
                                 issues_found |-> c.issues_found,
                                 summary |-> [total_weeks |-> Len(sd),
                                              total_events |-> Len(c.calendar_events),
                                              issues_count |-> Len(c.issues_found)]]]]
        ELSE IF parse_week_date(sd[c.pos + 1][1]).kind = "OverflowError"
        THEN [heap |-> hp, call |-> [c EXCEPT !.result = [kind |-> "OverflowError"]]]
        ELSE [heap |-> [hp EXCEPT ![c.schedule_data][c.pos + 1][2] = <<>>],
              call |-> IF c.fn = "generate_icalendar"
                       THEN [c EXCEPT !.pos = @ + 1,
                                      !.ics_lines =
                                          @ \o WeekLines(sd[c.pos + 1], c.include_notes, clock)]
                       ELSE [c EXCEPT !.pos = @ + 1,
                                      !.parsing_results =
                                          Append(@, <<sd[c.pos + 1][1], WeekDebug(sd[c.pos + 1])>>),
                                      !.calendar_events = @ \o WeekEvents(sd[c.pos + 1]),
                                      !.issues_found = @ \o WeekIssues(sd[c.pos + 1])]]

\* one step of the invocation c while the heap is hp: the next pass of "for
\* week_title, week_data in schedule_data.items()", or, after the last week,
\* the statements that follow the loop. It gives the frame and the heap
\* after the step: the pass reads the week it visits and writes only the
\* locals of the frame.
RunWeek(c, hp, clock) ==
    LET sd == hp[c.schedule_data]
    IN  IF c.pos >= Len(sd)
        THEN [heap |-> hp,
              call |-> [c EXCEPT !.result =
                           IF c.fn = "generate_icalendar"
                           THEN [kind |-> "str", ics_lines |-> c.ics_lines \o <<L_END_VCALENDAR>>]
                           ELSE [kind |-> "dict",
                                 schedule_data |-> sd,
                                 parsing_results |-> c.parsing_results,
                                 calendar_events |-> c.calendar_events,
                                 issues_found |-> c.issues_found,
                                 summary |-> [total_weeks |-> Len(sd),
                                              total_events |-> Len(c.calendar_events),
                                              issues_count |-> Len(c.issues_found)]]]]
        ELSE IF parse_week_date(sd[c.pos + 1][1]).kind = "OverflowError"
        THEN [heap |-> hp, call |-> [c EXCEPT !.result = [kind |-> "OverflowError"]]]
        ELSE [heap |-> hp,
              call |-> IF c.fn = "generate_icalendar"
                       THEN [c EXCEPT !.pos = @ + 1,
                                      !.ics_lines =
                                          @ \o WeekLines(sd[c.pos + 1], c.include_notes, clock)]
                       ELSE [c EXCEPT !.pos = @ + 1,
                                      !.parsing_results =
                                          Append(@, <<sd[c.pos + 1][1], WeekDebug(sd[c.pos + 1])>>),
                                      !.calendar_events = @ \o WeekEvents(sd[c.pos + 1]),
                                      !.issues_found = @ \o WeekIssues(sd[c.pos + 1])]]

\* two schedule objects, and two invocations that have just been entered: the
\* first on the first object, the second on the same object or on the other
InitConcurrent ==
    /\ returned = {}
    /\ now = Clock(2025, 5, 15)
    /\ heap \in [1..2 -> {<<>>,
                          <<(<<T_26_May, WD_Mixed>>)>>,
                          <<(<<T_26_May, WD_Mixed>>), <<T_2_June, WD_Late>> >>,
                          <<(<<T_2_June, WD_SundayFirst>>), <<T_InvalidFormat, WD_Mixed>> >>,
                          <<(<<T_29_dec, WD_SundayOnly>>), <<T_huge_May, WD_SundayFirst>> >>}]
    /\ calls \in
           {<<c1, c2>> : c1 \in
                  {[fn |-> f, schedule_data |-> 1, include_notes |-> TRUE, pos |-> 0,
                    ics_lines |->
                        IF f = "generate_icalendar"
                        THEN <<L_BEGIN_VCALENDAR, L_VERSION, L_PRODID, L_CALSCALE, L_METHOD,
                               P_X_WR_CALNAME \o N_TestCalendar, L_X_WR_CALDESC,
                               L_X_WR_TIMEZONE>>
                        ELSE <<>>,
                    parsing_results |-> <<>>, calendar_events |-> <<>>,
                    issues_found |-> <<>>, result |-> None]
                   : f \in {"generate_icalendar", "generate_debug_info"}},
             c2 \in
                  {[fn |-> f, schedule_data |-> o, include_notes |-> FALSE, pos |-> 0,
                    ics_lines |->
                        IF f = "generate_icalendar"
                        THEN <<L_BEGIN_VCALENDAR, L_VERSION, L_PRODID, L_CALSCALE, L_METHOD,
                               P_X_WR_CALNAME \o N_TestCalendar, L_X_WR_CALDESC,
                               L_X_WR_TIMEZONE>>
                        ELSE <<>>,
                    parsing_results |-> <<>>, calendar_events |-> <<>>,
                    issues_found |-> <<>>, result |-> None]
                   : f \in {"generate_icalendar", "generate_debug_info"}, o \in 1..2}}
    /\ NoRequest
    /\ NoWeekCall
    /\ NoSlotsCall
    /\ NoGenerateCall

\* the scheduler lets invocation i take its next step
Iterate(i) ==
    /\ calls[i].result = None
    /\ calls' = [calls EXCEPT ![i] = RunWeek(calls[i], heap, now).call]
    /\ heap' = RunWeek(calls[i], heap, now).heap
    /\ UNCHANGED <<returned, now, week_title, week_start_date, parts, sep, times_str,
                   slots, notes, schedule_data, calendar_name, include_notes,
                   weeks_ahead, ics_content, debug_info, requestVars>>

NextConcurrent == \E i \in 1..2 : Iterate(i)

SpecConcurrent == InitConcurrent /\ [][NextConcurrent]_vars

----------------------------------------------------------------------------
(* Claims about generate_icalendar and generate_debug_info, under Spec *)

IcsReturned == "generate_icalendar" \in returned /\ ics_content.kind = "str"

DebugReturned == "generate_debug_info" \in returned /\ debug_info.kind = "dict"

HasPrefix(s, p) == Len(s) >= Len(p) /\ SubSeq(s, 1, Len(p)) = p

\* the ordinal of the date written as the eight digits YYYYMMDD
OrdinalOfYmd(ds) ==
    toordinal([year |-> IntOfDigits(SubSeq(ds, 1, 4), 0),
               month |-> IntOfDigits(SubSeq(ds, 5, 6), 0),
               day |-> IntOfDigits(SubSeq(ds, 7, 8), 0)])

\* the eight digits after "DTSTART:" or "DTEND:" of a line
DateDigitsOfLine(l) ==
    IF HasPrefix(l, P_DTSTART)
    THEN SubSeq(l, Len(P_DTSTART) + 1, Len(P_DTSTART) + 8)
    ELSE SubSeq(l, Len(P_DTEND) + 1, Len(P_DTEND) + 8)

\* the dates (as ordinals) of the DTSTART and DTEND lines of the document
IcsEventOrdinals ==
    {OrdinalOfYmd(DateDigitsOfLine(ics_content.ics_lines[k])) :
        k \in {n \in 1..Len(ics_content.ics_lines) :
                  \/ HasPrefix(ics_content.ics_lines[n], P_DTSTART)
                  \/ HasPrefix(ics_content.ics_lines[n], P_DTEND)}}

\* the dates (as ordinals) of calendar_events of the debug structure
DebugEventOrdinals ==
    {OrdinalOfYmd(RemoveChars(debug_info.calendar_events[k].date, {"-"})) :
        k \in 1..Len(debug_info.calendar_events)}

\* the start dates (as ordinals) of the supplied weeks whose title resolves
ResolvedWeekOrdinals ==
    {toordinal(parse_week_date(schedule_data[i][1])) :
        i \in {n \in 1..Len(schedule_data) :
                  parse_week_date(schedule_data[n][1]).kind = "datetime"}}

\* d lies from the earliest of the week starts ws to six days after the
\* latest of them
InSpan(d, ws) ==
    /\ \E lo \in ws : lo <= d
    /\ \E hi \in ws : d <= hi + 6

AllInSpan(ds, ws) == \A d \in ds : InSpan(d, ws)

\* C1: whatever weeks_ahead is, every event date of generate_icalendar and of
\* generate_debug_info lies in the span from the Monday of the earliest
\* resolvable supplied week to the Sunday (Monday + 6 days) of the latest one.
C1_EventDatesWithinSuppliedWeeks ==
    /\ IcsReturned => AllInSpan(IcsEventOrdinals, ResolvedWeekOrdinals)
    /\ DebugReturned => AllInSpan(DebugEventOrdinals, ResolvedWeekOrdinals)

C1_Witness ==
    /\ IcsReturned
    /\ DebugReturned
    /\ weeks_ahead = 20
    /\ Len(schedule_data) = 2
    /\ Cardinality(ResolvedWeekOrdinals) = 2
    /\ \E d \in IcsEventOrdinals : \A hi \in ResolvedWeekOrdinals : d >= hi + 6
    /\ \E d \in DebugEventOrdinals : \A lo \in ResolvedWeekOrdinals : d <= lo

\* the number of lines of the document that are "BEGIN:VEVENT"
IcsEventCount ==
    Cardinality({k \in 1..Len(ics_content.ics_lines) :
                    ics_content.ics_lines[k] = L_BEGIN_VEVENT})

\* the number of (day, time window) pairs of the supplied weeks whose title
\* resolves, each week counted once
RECURSIVE SuppliedWindowCount(_)
SuppliedWindowCount(sd) ==
    IF sd = <<>> THEN 0
    ELSE SuppliedWindowCount(Tail(sd))
         + (IF parse_week_date(Head(sd)[1]).kind # "datetime" THEN 0
            ELSE Len(Flatten([k \in 1..Len(DayItems(Head(sd))) |->
                                 parse_time_slots(DayItems(Head(sd))[k][2])])))

\* C2: weeks_ahead never changes which events are emitted: any other value
\* gives the same document and the same calendar_events, and the supplied
\* weeks are never repeated to fill the requested horizon.
C2_WeeksAheadChangesNothing ==
    /\ IcsReturned =>
           /\ \A wa \in {1, 8, 20} \ {weeks_ahead} :
                  generate_icalendar(schedule_data, calendar_name, include_notes, wa, now)
                      = ics_content
           /\ IcsEventCount = SuppliedWindowCount(schedule_data)
    /\ DebugReturned =>
           /\ \A wa \in {1, 8, 20} \ {weeks_ahead} :
                  calendar_events(schedule_data, wa) = debug_info.calendar_events
           /\ Len(debug_info.calendar_events) = SuppliedWindowCount(schedule_data)

C2_Witness ==
    /\ IcsReturned
    /\ DebugReturned
    /\ weeks_ahead = 1
    /\ Len(schedule_data) = 2
    /\ IcsEventCount = 5
    /\ Len(debug_info.calendar_events) = 5

----------------------------------------------------------------------------
(* Claims about parse_week_date, under SpecWeek *)

WeekReturned == "parse_week_date" \in returned

Resolved == WeekReturned /\ week_start_date.kind = "datetime"

\* C3: with the reference date (the clock) in December of year Y and a title
\* that names a January date, parse_week_date resolves the title to year Y + 1.
C3_DecemberToJanuaryNextYear ==
    (Resolved /\ now.month = 12 /\ week_start_date.month = 1)
        => week_start_date.year = now.year + 1

\* C4: with the reference date in January or February of year Y and a title
\* that names a November or December date, parse_week_date resolves the title
\* to year Y - 1.
C4_JanuaryToDecemberPreviousYear ==
    (Resolved /\ now.month \in {1, 2} /\ week_start_date.month \in {11, 12})
        => week_start_date.year = now.year - 1

CrossYearRule ==
    \/ now.month = 12 /\ week_start_date.month = 1
    \/ now.month \in {1, 2} /\ week_start_date.month \in {11, 12}

\* C5: when neither cross-year rule applies, parse_week_date resolves the title
\* to the year of the reference date, which is the current date at call time.
C5_SameYearAsReferenceDate ==
    (Resolved /\ ~CrossYearRule) => week_start_date.year = now.year

\* C6: parse_week_date never raises: whatever the title, it returns a date or
\* the 'not resolvable' result None.
C6_NeverRaises ==
    WeekReturned => week_start_date.kind \in {"datetime", "None"}

----------------------------------------------------------------------------
(* Claims about parse_time_slots, under SpecSlots *)

SlotsReturned == "parse_time_slots" \in returned

HasClosedPart == \E i \in 1..Len(parts) : parts[i] \in ClosedChunks

AllRanges == Len(parts) >= 1 /\ \A i \in 1..Len(parts) : parts[i] \in RangeChunks

\* the slots the pieces name, in the order of the pieces
SlotsOfParts == [i \in 1..Len(parts) |-> SlotOfChunk(parts[i])]

\* C7: a day string that contains 'closed' in any letter case, anywhere (also
\* inside a parenthesized note), yields the empty sequence, whatever time
\* ranges it also contains.
C7_ClosedYieldsNoSlots ==
    (SlotsReturned /\ HasClosedPart) => slots = <<>>

C7_Witness ==
    /\ SlotsReturned
    /\ \E i \in 1..Len(parts) : parts[i] = N_Closed
    /\ \E i \in 1..Len(parts) : parts[i] \in RangeChunks
    /\ slots = <<>>

\* position i of s lies in a parenthesized substring: the first ")" at or
\* after i closes a "(" that stands at or before i, after the ")" before i
InParens(s, i) ==
    /\ \E k \in i..Len(s) : s[k] = ")"
    /\ \E j \in 1..i :
           /\ s[j] = "("
           /\ \A q \in j..(i - 1) : s[q] # ")"

RECURSIVE OutsideFrom(_, _)
OutsideFrom(s, i) ==
    IF i > Len(s) THEN <<>>
    ELSE IF InParens(s, i) THEN OutsideFrom(s, i + 1)
    ELSE <<s[i]>> \o OutsideFrom(s, i + 1)

\* the text of s outside its parenthesized substrings
OutsideParens(s) == OutsideFrom(s, 1)

\* C8, as stated: for all day strings the windows returned are exactly those
\* found in the text outside the parentheses.
C8_Original ==
    SlotsReturned => slots = SlotsOfText(OutsideParens(times_str))

\* C8, amended: for a day string without the word 'closed', the windows
\* returned are exactly those found in the text left when every parenthesized
\* substring (from a "(" to the first ")" after it) is deleted, so the text of
\* a note never contributes a window, HH:MM-HH:MM shaped or not.
C8_NotesContributeNoSlots ==
    (SlotsReturned /\ ~HasClosedPart) => slots = SlotsOfText(OutsideParens(times_str))

C8_Witness ==
    /\ SlotsReturned
    /\ parts = <<R_0700_1400, N_LoopOnly>>
    /\ slots = <<SlotOfChunk(R_0700_1400)>>

\* C9: the windows come in left-to-right order of appearance and verbatim,
\* never sorted, merged, deduplicated or dropped: n well-formed ranges
\* separated by spaces yield exactly those n (start, end) pairs in that order.
C9_RangesInOrderVerbatim ==
    (SlotsReturned /\ AllRanges /\ sep = <<" ">>) => slots = SlotsOfParts

C9_Witness ==
    /\ SlotsReturned
    /\ sep = <<" ">>
    /\ parts = <<R_1600_2100, R_0900_0800, R_1600_2100>>
    /\ slots = <<SlotOfChunk(R_1600_2100), SlotOfChunk(R_0900_0800), SlotOfChunk(R_1600_2100)>>

\* C10: ranges concatenated with no delimiter are still split: 'a-bc-d' yields
\* the windows (a, b) and (c, d) in that order.
C10_StuckRangesAreSplit ==
    (SlotsReturned /\ AllRanges /\ Len(parts) = 2 /\ sep = <<>>) => slots = SlotsOfParts

C10_Witness ==
    /\ SlotsReturned
    /\ sep = <<>>
    /\ parts = <<R_0700_1400, R_1600_2100>>
    /\ slots = <<SlotOfChunk(R_0700_1400), SlotOfChunk(R_1600_2100)>>

----------------------------------------------------------------------------
(* Claims about extract_special_notes, under SpecSlots *)

NotesReturned == "extract_special_notes" \in returned

\* the parentheses of s are balanced and not nested: every "(" is closed by a
\* ")" before the next "(", and every ")" closes a "("
RECURSIVE WellParenthesizedFrom(_, _, _)
WellParenthesizedFrom(s, i, open) ==
    IF i > Len(s) THEN ~open
    ELSE IF s[i] = "(" THEN ~open /\ WellParenthesizedFrom(s, i + 1, TRUE)
    ELSE IF s[i] = ")" THEN open /\ WellParenthesizedFrom(s, i + 1, FALSE)
    ELSE WellParenthesizedFrom(s, i + 1, open)

WellParenthesized(s) == WellParenthesizedFrom(s, 1, FALSE)

\* the parenthesized substrings of s, parentheses included, in source order:
\* from a "(" to the next ")" with no parenthesis between them
RECURSIVE BalancedNotesFrom(_, _)
BalancedNotesFrom(s, i) ==
    IF i > Len(s) THEN <<>>
    ELSE IF s[i] = "(" /\ \E k \in (i + 1)..Len(s) :
                              /\ s[k] = ")"
                              /\ \A j \in (i + 1)..(k - 1) : s[j] \notin {"(", ")"}
    THEN <<SubSeq(s, i, CHOOSE k \in (i + 1)..Len(s) : s[k] = ")"
                                   /\ \A j \in (i + 1)..(k - 1) : s[j] # ")")>>
             \o BalancedNotesFrom(s, i + 1)
    ELSE BalancedNotesFrom(s, i + 1)

BalancedNotes(s) == BalancedNotesFrom(s, 1)

\* C11: extract_special_notes returns every balanced, non-nested parenthesized
\* substring of the raw day string, verbatim, joined by single spaces in
\* source order (the empty string when there is none), and it reports every
\* parenthesized substring that parse_time_slots strips from the same string.
C11_NotesAreTheParenthesizedSubstrings ==
    NotesReturned =>
        /\ WellParenthesized(times_str)
               => notes = JoinWith(<<" ">>, BalancedNotes(times_str))
        /\ \A k \in 1..Len(StrippedParts(times_str)) :
               Contains(notes, StrippedParts(times_str)[k])

----------------------------------------------------------------------------
(* Claims about the events of the generators, under Spec *)

\* the (date as an ordinal, start time as HHMM) of each event of the document,
\* in the order of its DTSTART lines
IcsEventStarts ==
    LET starts == SelectSeq(ics_content.ics_lines, LAMBDA l : HasPrefix(l, P_DTSTART))
    IN  [k \in 1..Len(starts) |->
            <<OrdinalOfYmd(DateDigitsOfLine(starts[k])),
              SubSeq(starts[k], Len(P_DTSTART) + 10, Len(P_DTSTART) + 13)>>]

\* the same of each entry of calendar_events of the debug structure
DebugEventStarts ==
    [k \in 1..Len(debug_info.calendar_events) |->
        <<OrdinalOfYmd(RemoveChars(debug_info.calendar_events[k].date, {"-"})),
          RemoveChars(debug_info.calendar_events[k].start_time, {":"})>>]

\* the events of the weekday with the given offset (Monday = 0) of a week that
\* starts at start_date: one per time window of that day, in window order
CanonicalDayStarts(start_date, week_data, offset) ==
    LET items == SelectSeq(week_data, LAMBDA item : item[1] = day_names[offset + 1])
    IN  Flatten([i \in 1..Len(items) |->
                    [k \in 1..Len(parse_time_slots(items[i][2])) |->
                        <<toordinal(start_date) + offset,
                          RemoveChars(parse_time_slots(items[i][2])[k][1], {":"})>>]])

\* the events of a schedule in the canonical order: the weeks in input order,
\* the weekdays of a week by ascending offset, the windows of a day in order
RECURSIVE CanonicalStarts(_)
CanonicalStarts(sd) ==
    IF sd = <<>> THEN <<>>
    ELSE (IF parse_week_date(Head(sd)[1]).kind # "datetime" THEN <<>>
          ELSE Flatten([o \in 1..7 |->
                           CanonicalDayStarts(parse_week_date(Head(sd)[1]),
                                              Head(sd)[2], o - 1)]))
         \o CanonicalStarts(Tail(sd))

\* C12: events are emitted in the canonical order: input week order, then
\* weekday offset ascending (Monday = 0 ... Sunday = 6) within a week, then
\* time-window order within a day, whatever the order of the weekday keys of
\* the day schedule.
C12_EventsInCanonicalOrder ==
    /\ IcsReturned => IcsEventStarts = CanonicalStarts(schedule_data)
    /\ DebugReturned => DebugEventStarts = CanonicalStarts(schedule_data)

\* the dates (as ordinals) week start + weekday offset, over the weeks whose
\* title resolves and the weekday keys of each week whose text passes Wanted
DerivableDates(sd, Wanted(_)) ==
    UNION {{toordinal(parse_week_date(sd[i][1])) + (o - 1) :
               o \in {o \in 1..7 : \E k \in 1..Len(sd[i][2]) :
                                      /\ sd[i][2][k][1] = day_names[o]
                                      /\ Wanted(sd[i][2][k][2])}} :
           i \in {i \in 1..Len(sd) : parse_week_date(sd[i][1]).kind = "datetime"}}

AnyText(text) == TRUE

HasWindow(text) == parse_time_slots(text) # <<>>

\* C13, as stated: a date has events if and only if it is week start + weekday
\* offset for a resolvable week and a weekday key present in that week.
C13_Original ==
    /\ IcsReturned => IcsEventOrdinals = DerivableDates(schedule_data, AnyText)
    /\ DebugReturned => DebugEventOrdinals = DerivableDates(schedule_data, AnyText)

\* C13, amended: a date has events if and only if it is week start + weekday
\* offset for a resolvable week and a weekday key present in that week whose
\* text yields at least one time window.
C13_DatesAreTheDerivableOpenDates ==
    /\ IcsReturned => IcsEventOrdinals = DerivableDates(schedule_data, HasWindow)
    /\ DebugReturned => DebugEventOrdinals = DerivableDates(schedule_data, HasWindow)

C13_Witness ==
    /\ IcsReturned
    /\ DebugReturned
    /\ Len(schedule_data) = 2
    /\ schedule_data[1] = <<T_26_May, WD_Mixed>>
    /\ schedule_data[2] = <<T_InvalidFormat, WD_Mixed>>
    /\ Cardinality(IcsEventOrdinals) = 2
    /\ Cardinality(DebugEventOrdinals) = 2

\* the weeks of a schedule whose title resolves to a date
ResolvableWeeks(sd) ==
    SelectSeq(sd, LAMBDA week : parse_week_date(week[1]).kind = "datetime")

\* C14: a week whose title is not resolvable is skipped entirely by
\* generate_icalendar: it raises no error and contributes no event, and the
\* document is exactly the one of the schedule without the unresolvable weeks.
C14_UnresolvableWeekIsSkipped ==
    "generate_icalendar" \in returned =>
        /\ ics_content.kind = "str"
        /\ ics_content = generate_icalendar(ResolvableWeeks(schedule_data), calendar_name,
                                            include_notes, weeks_ahead, now)

\* the lines of the document with the given prefix, in order, without it
IcsValues(doc, prefix) ==
    LET ls == SelectSeq(doc.ics_lines, LAMBDA l : HasPrefix(l, prefix))
    IN  [k \in 1..Len(ls) |-> SubSeq(ls[k], Len(prefix) + 1, Len(ls[k]))]

\* the index (from 0) of each window among the windows of its day, for the
\* weekday items of a week
IndexesOfItems(items) ==
    Flatten([i \in 1..Len(items) |->
                [k \in 1..Len(parse_time_slots(items[i][2])) |-> k - 1]])

\* the index (from 0) of each event among the events of its day, in the order
\* of emission
IndexesWithinDay(sd) ==
    Flatten([i \in 1..Len(ResolvableWeeks(sd)) |->
                IndexesOfItems(DayItems(ResolvableWeeks(sd)[i]))])

\* n >= 0 in decimal digits
RECURSIVE DecimalOf(_)
DecimalOf(n) ==
    (IF n < 10 THEN <<>> ELSE DecimalOf(n \div 10)) \o <<ToString(n % 10)>>

\* the identifier made of only the date, start time and index of an event
UidOf(starts, indexes, k) ==
    S_uid_prefix \o SubSeq(starts[k], 1, 8) \o <<"-">> \o SubSeq(starts[k], 10, 13)
        \o <<"-">> \o DecimalOf(indexes[k]) \o S_uid_suffix

\* the k-th identifier is made of the k-th start and the k-th index
UidsFollow(uids, starts, indexes) ==
    /\ Len(uids) = Len(starts)
    /\ Len(uids) = Len(indexes)
    /\ \A k \in 1..Len(uids) : uids[k] = UidOf(starts, indexes, k)

\* other moments at which the same document may be generated again
LaterClocks ==
    {[now EXCEPT !.second = 0, !.minute = 31], Clock(year + 1, 1, 1)}

\* C15: generation is idempotent: generating the document again from the same
\* schedule yields the same event identifiers in the same order, and each
\* identifier is a function of only the event's date, start time and sequence
\* index within its day.
C15_IdentifiersAreStable ==
    IcsReturned =>
        /\ \A clock \in LaterClocks :
               IcsValues(generate_icalendar(schedule_data, calendar_name, include_notes,
                                            weeks_ahead, clock), P_UID)
                   = IcsValues(ics_content, P_UID)
        /\ UidsFollow(IcsValues(ics_content, P_UID), IcsValues(ics_content, P_DTSTART),
                      IndexesWithinDay(schedule_data))

C15_Witness ==
    /\ IcsReturned
    /\ Len(schedule_data) = 2
    /\ Len(IcsValues(ics_content, P_UID)) = 5
    /\ \E k \in 1..5 : IndexesWithinDay(schedule_data)[k] = 1

\* the (date, window) pairs of the windows ws of the day with ordinal d
DayWindows(d, ws) == [k \in 1..Len(ws) |-> <<d, ws[k]>>]

\* the (date, window) pairs of the weekday items of a week that starts at the
\* ordinal d, in the order of the items
WeekWindows(d, items) ==
    Flatten([i \in 1..Len(items) |->
                DayWindows(d + CHOOSE o \in 0..6 : day_names[o + 1] = items[i][1],
                           parse_time_slots(items[i][2]))])

\* the windows of a week: none unless the title resolves to a date
WindowsOfWeek(start_date, week) ==
    IF start_date.kind # "datetime" THEN <<>>
    ELSE WeekWindows(toordinal(start_date), DayItems(week))

\* the (date as an ordinal, window) of each event in the order of emission:
\* the resolvable weeks, the weekday items of a week, the windows of a day
EmittedWindows(sd) ==
    Flatten([i \in 1..Len(sd) |-> WindowsOfWeek(parse_week_date(sd[i][1]), sd[i])])

AllDigits(s) == \A i \in 1..Len(s) : s[i] \in Digits

\* v is a timestamp YYYYMMDDTHHMMSS of a valid date and time of day
IsTimestamp(v) ==
    /\ Len(v) = 15
    /\ v[9] = "T"
    /\ AllDigits(SubSeq(v, 1, 8)) /\ AllDigits(SubSeq(v, 10, 15))
    /\ IntOfDigits(SubSeq(v, 1, 4), 0) >= 1
    /\ IntOfDigits(SubSeq(v, 5, 6), 0) \in 1..12
    /\ IntOfDigits(SubSeq(v, 7, 8), 0)
           \in 1..DaysInMonth(IntOfDigits(SubSeq(v, 1, 4), 0), IntOfDigits(SubSeq(v, 5, 6), 0))
    /\ IntOfDigits(SubSeq(v, 10, 11), 0) \in 0..23
    /\ IntOfDigits(SubSeq(v, 12, 13), 0) \in 0..59
    /\ IntOfDigits(SubSeq(v, 14, 15), 0) \in 0..59

\* the timestamp v has the date with ordinal d and the hour and minute of the
\* time t, written HH:MM
StampMatches(v, d, t) ==
    /\ IsTimestamp(v)
    /\ OrdinalOfYmd(SubSeq(v, 1, 8)) = d
    /\ SubSeq(v, 10, 11) = SubSeq(t, 1, 2)
    /\ SubSeq(v, 12, 13) = SubSeq(t, 4, 5)

\* the k-th start and end timestamps match the k-th (date, window) of ws
AllStampsMatch(starts, ends, ws) ==
    /\ Len(starts) = Len(ws)
    /\ Len(ends) = Len(ws)
    /\ \A k \in 1..Len(ws) :
           /\ StampMatches(starts[k], ws[k][1], ws[k][2][1])
           /\ StampMatches(ends[k], ws[k][1], ws[k][2][2])

\* C16: for every event of the document, DTSTART and DTEND are parseable
\* timestamps (valid date, hour 00-23, minute 00-59) whose date is the resolved
\* date of the day and whose hour and minute are those of the start and the
\* end of the originating time window.
C16_TimestampsRoundTrip ==
    IcsReturned =>
        AllStampsMatch(IcsValues(ics_content, P_DTSTART), IcsValues(ics_content, P_DTEND),
                       EmittedWindows(schedule_data))

OnlyCRLF(text) ==
    \A i \in 1..Len(text) :
        /\ text[i] = "\n" => (i > 1 /\ text[i - 1] = "\r")
        /\ text[i] = "\r" => (i < Len(text) /\ text[i + 1] = "\n")

\* C18: every line ending of the document returned by generate_icalendar is a
\* carriage-return/line-feed pair: no line is ended or broken by a bare line
\* feed or a bare carriage return, whatever the calendar name and the schedule
\* (annotation text included).
C18_LineEndingsAreCRLF ==
    IcsReturned => OnlyCRLF(Document(ics_content))

\* the elements of a finite set of integers in ascending order
RECURSIVE Ascending(_)
Ascending(S) ==
    IF S = {} THEN <<>>
    ELSE LET m == CHOOSE m \in S : \A x \in S : m <= x
         IN  <<m>> \o Ascending(S \ {m})

\* the positions of text at which a carriage return and a line feed stand
Breaks(text) == {i \in 1..(Len(text) - 1) : text[i] = "\r" /\ text[i + 1] = "\n"}

\* the lines of a text whose lines are separated at the positions br
LinesBetween(text, br) ==
    [k \in 1..(Len(br) + 1) |->
        SubSeq(text, IF k = 1 THEN 1 ELSE br[k - 1] + 2,
                     IF k > Len(br) THEN Len(text) ELSE br[k] - 1)]

\* the lines of a text whose lines are separated by CRLF
LinesOf(text) == LinesBetween(text, Ascending(Breaks(text)))

\* the property lines every event block carries
EventPrefixes ==
    {P_UID, P_DTSTART, P_DTEND, P_SUMMARY, P_DESCRIPTION,
     <<"L", "O", "C", "A", "T", "I", "O", "N", ":">>, <<"U", "R", "L", ":">>, P_DTSTAMP}

\* the lines ls are one header/footer pair around n event blocks that are not
\* nested, each with exactly one line of every prefix of EventPrefixes
IsCalendarOfBlocks(ls, n) ==
    LET begins == {i \in 1..Len(ls) : ls[i] = L_BEGIN_VEVENT}
        ends == {i \in 1..Len(ls) : ls[i] = L_END_VEVENT}
    IN  /\ Len(ls) >= 2
        /\ {i \in 1..Len(ls) : ls[i] = L_BEGIN_VCALENDAR} = {1}
        /\ {i \in 1..Len(ls) : ls[i] = L_END_VCALENDAR} = {Len(ls)}
        /\ Cardinality(begins) = n
        /\ Cardinality(ends) = n
        /\ \A b \in begins :
               \E e \in ends :
                   /\ b < e
                   /\ \A i \in (b + 1)..(e - 1) : i \notin begins \cup ends
                   /\ \A p \in EventPrefixes :
                          Cardinality({i \in (b + 1)..(e - 1) : HasPrefix(ls[i], p)}) = 1
        /\ \A e \in ends :
               \E b \in begins : b < e /\ \A i \in (b + 1)..(e - 1) : i \notin begins \cup ends

\* the k-th DTSTART of the lines ls has the date and the start of the k-th window
BlocksFollowWindows(starts, ws) ==
    /\ Len(starts) = Len(ws)
    /\ \A k \in 1..Len(ws) :
           /\ OrdinalOfYmd(SubSeq(starts[k], 1, 8)) = ws[k][1]
           /\ SubSeq(starts[k], 10, 13) = RemoveChars(ws[k][2][1], {":"})

----------------------------------------------------------------------------
(* Claims about do_GET, under SpecRequest *)

Answered == "do_GET" \in returned

\* the request is answered by one response with status 200 and a body
Answered200 ==
    /\ Answered
    /\ Len(response) = 1
    /\ response[1].status = 200
    /\ response[1].body # None

\* the caller asks for debug output: debug is 'true' in any letter case (the
\* flag is lower-cased before it is compared), or format is 'debug'
DebugRequested(q) ==
    \/ q.debug # <<>> /\ lower(q.debug[1]) = Strings.true
    \/ q.format = <<Strings.debug>>

JsonRequested(q) == q.format = <<Strings.json>>

\* the three kinds of output
IsDebugStructure(r) ==
    /\ r.content_type = "application/json"
    /\ r.body.kind = "json"
    /\ r.body.of = "debug_info"
    /\ r.body.value.kind = "dict"
    /\ r.body.value.schedule_data = scrape_velopark_schedule(page).schedule_data

IsRawSchedule(r) ==
    /\ r.content_type = "application/json"
    /\ r.body.kind = "json"
    /\ r.body.of = "schedule_data"
    /\ r.body.value = scrape_velopark_schedule(page).schedule_data

IsCalendarDocument(r) ==
    /\ r.content_type = "text/calendar; charset=utf-8"
    /\ r.body.kind = "text"
    /\ SubSeq(r.body.text, 1, Len(L_BEGIN_VCALENDAR)) = L_BEGIN_VCALENDAR

\* C20: a request that is answered with status 200 gets exactly one of three
\* kinds of output, selected by the caller's flags: the debug structure when
\* debug output is requested (debug=true or format=debug, also when
\* format=json is given), the scraped schedule as JSON when format=json and
\* debug output is not requested, and otherwise the calendar document with
\* content type text/calendar.
C20_OutputSelectedByFormat ==
    Answered200 =>
        /\ IsDebugStructure(response[1]) <=> DebugRequested(query_params)
        /\ IsRawSchedule(response[1]) <=>
               JsonRequested(query_params) /\ ~DebugRequested(query_params)
        /\ IsCalendarDocument(response[1]) <=>
               ~JsonRequested(query_params) /\ ~DebugRequested(query_params)

\* a request with format=json and debug=true that gets the debug structure
C20_Witness ==
    /\ Answered200
    /\ query_params.format = <<Strings.json>>
    /\ query_params.debug = <<Strings.true>>
    /\ IsDebugStructure(response[1])

----------------------------------------------------------------------------
(* Claims about the texts of the events, under Spec *)

\* the summaries of the events of a day with n time windows: the base string,
\* with ' (Session k)' for the k-th window when there is more than one
SummariesOfDay(n) ==
    [k \in 1..n |->
        IF n > 1
        THEN S_summary \o <<" ", "(", "S", "e", "s", "s", "i", "o", "n", " ">>
                 \o DecimalOf(k) \o <<")">>
        ELSE S_summary]

\* the summaries of the events of the weekday items of a week
SummariesOfItems(items) ==
    Flatten([i \in 1..Len(items) |-> SummariesOfDay(Len(parse_time_slots(items[i][2])))])

\* the summaries of the events of a schedule, in the order of emission
SummariesOf(sd) ==
    Flatten([i \in 1..Len(ResolvableWeeks(sd)) |->
                SummariesOfItems(DayItems(ResolvableWeeks(sd)[i]))])

DebugSummaries ==
    [k \in 1..Len(debug_info.calendar_events) |-> debug_info.calendar_events[k].summary]

\* C21: the summary of an event is the fixed base string, suffixed with
\* ' (Session k)' if and only if its day has more than one time window, k being
\* the 1-based position of the event among the windows of its day; with one
\* window there is no suffix; generate_icalendar and generate_debug_info
\* produce the same summaries.
C21_SummaryNumbersSessions ==
    /\ IcsReturned => IcsValues(ics_content, P_SUMMARY) = SummariesOf(schedule_data)
    /\ DebugReturned => DebugSummaries = SummariesOf(schedule_data)

\* a week with a one-window Monday and a two-window Friday, through both
\* generators
C21_Witness ==
    /\ IcsReturned
    /\ DebugReturned
    /\ schedule_data = <<(<<T_26_May, WD_Mixed>>)>>
    /\ DebugSummaries = IcsValues(ics_content, P_SUMMARY)
    /\ Len(DebugSummaries) = 3
    /\ DebugSummaries[1] = S_summary
    /\ DebugSummaries[3] # S_summary

\* the description of an event of a day with the given text
DescriptionOfDay(text, notes_wanted) ==
    IF notes_wanted /\ extract_special_notes(text) # <<>>
    THEN S_description \o <<" ">> \o extract_special_notes(text)
    ELSE S_description

\* the descriptions of the events of the weekday items of a week: one per
\* time window
DescriptionsOfItems(items, notes_wanted) ==
    Flatten([i \in 1..Len(items) |->
                [k \in 1..Len(parse_time_slots(items[i][2])) |->
                    DescriptionOfDay(items[i][2], notes_wanted)]])

\* the descriptions of the events of a schedule, in the order of emission
DescriptionsOf(sd, notes_wanted) ==
    Flatten([i \in 1..Len(ResolvableWeeks(sd)) |->
                DescriptionsOfItems(DayItems(ResolvableWeeks(sd)[i]), notes_wanted)])

\* C22: the description of an event is the fixed base sentence, with the
\* annotation text of its day appended if and only if notes are requested and
\* the annotation text is not empty; without include_notes every description
\* is the base sentence alone.
C22_DescriptionCarriesWantedNotes ==
    IcsReturned =>
        /\ IcsValues(ics_content, P_DESCRIPTION) = DescriptionsOf(schedule_data, include_notes)
        /\ ~include_notes =>
               \A k \in 1..Len(IcsValues(ics_content, P_DESCRIPTION)) :
                   IcsValues(ics_content, P_DESCRIPTION)[k] = S_description

\* notes are requested, for days with an annotation and days without one
C22_Witness ==
    /\ IcsReturned
    /\ include_notes
    /\ schedule_data = <<(<<T_26_May, WD_Mixed>>), <<T_2_June, WD_SundayFirst>> >>
    /\ Len(IcsValues(ics_content, P_DESCRIPTION)) = 5
    /\ IcsValues(ics_content, P_DESCRIPTION)[1]
           = S_description \o <<" ">> \o extract_special_notes(D_BankHoliday)
    /\ IcsValues(ics_content, P_DESCRIPTION)[5] = S_description

----------------------------------------------------------------------------
(* Claims about malformed day strings, under SpecSlots *)

\* t is two digits, a colon, two digits
IsTwoDigitTime(t) ==
    /\ DOMAIN t = 1..5
    /\ t[3] = ":"
    /\ \A i \in {1, 2, 4, 5} : t[i] \in Digits

\* some piece of s is a range: a time, a dash with optional whitespace around
\* it, a time
HoldsRange(s) ==
    \E i \in 1..Len(s) :
        \E j \in (i + 10)..Len(s) :
            /\ IsTwoDigitTime(SubSeq(s, i, i + 4))
            /\ IsTwoDigitTime(SubSeq(s, j - 4, j))
            /\ \E d \in (i + 5)..(j - 5) :
                   /\ s[d] = "-"
                   /\ \A w \in ((i + 5)..(j - 5)) \ {d} : s[w] \in Whitespace

\* the text that parse_time_slots searches for ranges: the notes removed, the
\* whitespace normalized, times stuck together set apart
SearchedText(s) == SplitStuckTimes(CollapseSpaces(strip(StripParens(s))))

\* C24: a malformed day string is never an error: parse_time_slots returns a
\* sequence for every input string, the empty one when the searched text holds
\* no range, and every returned window has a start and an end of exactly the
\* shape two digits, colon, two digits.
C24_MalformedTextIsNeverAnError ==
    SlotsReturned =>
        /\ DOMAIN slots = 1..Len(slots)
        /\ ~HoldsRange(SearchedText(times_str)) => slots = <<>>
        /\ \A k \in 1..Len(slots) :
               /\ DOMAIN slots[k] = 1..2
               /\ IsTwoDigitTime(slots[k][1])
               /\ IsTwoDigitTime(slots[k][2])

\* a text of a lone time, a dash and an unclosed parenthesis: no range, no
\* window
C24_Witness ==
    /\ SlotsReturned
    /\ parts = <<T_1200, <<"-">>, <<"(">> >>
    /\ slots = <<>>

----------------------------------------------------------------------------
(* Claims about the keys of a day schedule, under Spec *)

\* the seven canonical weekday names
CanonicalNames ==
    {K_Monday, K_Tuesday, <<"W", "e", "d", "n", "e", "s", "d", "a", "y">>,
     <<"T", "h", "u", "r", "s", "d", "a", "y">>, K_Friday,
     <<"S", "a", "t", "u", "r", "d", "a", "y">>, K_Sunday}

\* a week without the keys that are not canonical weekday names
CanonicalWeek(week) ==
    <<week[1], SelectSeq(week[2], LAMBDA item : item[1] \in CanonicalNames)>>

\* a schedule without the keys that are not canonical weekday names
CanonicalSchedule(sd) == [i \in 1..Len(sd) |-> CanonicalWeek(sd[i])]

\* the (date as an ordinal, window) of each event that the canonical keys of
\* the resolvable weeks give
CanonicalWindows(sd) ==
    Flatten([i \in 1..Len(ResolvableWeeks(sd)) |->
                WeekWindows(toordinal(parse_week_date(ResolvableWeeks(sd)[i][1])),
                            CanonicalWeek(ResolvableWeeks(sd)[i])[2])])

HasOtherKey(sd) ==
    \E i \in 1..Len(sd) : \E k \in 1..Len(sd[i][2]) : sd[i][2][k][1] \notin CanonicalNames

\* the k-th debug event has the date and the window of the k-th of ws
DebugEventsFollowWindows(events, ws) ==
    /\ Len(events) = Len(ws)
    /\ \A k \in 1..Len(ws) :
           /\ OrdinalOfYmd(RemoveChars(events[k].date, {"-"})) = ws[k][1]
           /\ <<events[k].start_time, events[k].end_time>> = ws[k][2]

\* C25: keys of a day schedule that are not one of the seven canonical weekday
\* names (exact spelling and capitalization) are ignored by both generators:
\* the result is what the schedule without those keys gives (no event, no
\* error, the events of the canonical keys unchanged), and the events are
\* those of the canonical keys.
C25_OtherKeysAreIgnored ==
    /\ "generate_icalendar" \in returned =>
           /\ ics_content = generate_icalendar(CanonicalSchedule(schedule_data),
                                               calendar_name, include_notes, weeks_ahead, now)
           /\ ics_content.kind = "str" =>
                  BlocksFollowWindows(IcsValues(ics_content, P_DTSTART),
                                      CanonicalWindows(schedule_data))
    /\ "generate_debug_info" \in returned =>
           /\ debug_info.kind = generate_debug_info(CanonicalSchedule(schedule_data),
                                                    weeks_ahead).kind
           /\ debug_info.kind = "dict" =>
                  /\ debug_info.calendar_events
                         = calendar_events(CanonicalSchedule(schedule_data), weeks_ahead)
                  /\ debug_info.issues_found
                         = issues_found(CanonicalSchedule(schedule_data), weeks_ahead)
                  /\ DebugEventsFollowWindows(debug_info.calendar_events,
                                              CanonicalWindows(schedule_data))

\* a week with the key 'monday' between Sunday and Monday, through both
\* generators
C25_Witness ==
    /\ IcsReturned
    /\ DebugReturned
    /\ schedule_data = <<(<<T_26_May, WD_SundayFirst>>)>>
    /\ HasOtherKey(schedule_data)
    /\ Len(IcsValues(ics_content, P_DTSTART)) = 2
    /\ Len(debug_info.calendar_events) = 2

----------------------------------------------------------------------------
(* Claims about the debug structure, under Spec *)

\* the entry of parsing_results for a week whose title resolves holds, for
\* each canonical day key in order, the raw text, the parsed windows, the
\* extracted annotation and the resolved date of the day
HoldsDaysOf(entry, week) ==
    /\ entry.week_start_date = parse_week_date(week[1])
    /\ Len(entry.days) = Len(CanonicalWeek(week)[2])
    /\ \A k \in 1..Len(entry.days) :
           /\ entry.days[k][1] = CanonicalWeek(week)[2][k][1]
           /\ entry.days[k][2].original_text = CanonicalWeek(week)[2][k][2]
           /\ entry.days[k][2].parsed_slots = parse_time_slots(CanonicalWeek(week)[2][k][2])
           /\ entry.days[k][2].special_notes
                  = extract_special_notes(CanonicalWeek(week)[2][k][2])
           /\ toordinal(entry.days[k][2].event_date)
                  = toordinal(parse_week_date(week[1]))
                        + CHOOSE o \in 0..6 : day_names[o + 1] = entry.days[k][1]

\* the number of issues 'Could not parse week date: <title>'
CouldNotParseIssues(issues, title) ==
    Cardinality({k \in 1..Len(issues) : issues[k] = S_could_not_parse \o title})

\* the entry for a week whose title does not resolve: a null date, no days,
\* and exactly one issue
HoldsNoDate(entry, issues, week) ==
    /\ entry.week_start_date = None
    /\ entry.days = <<>>
    /\ CouldNotParseIssues(issues, week[1]) = 1

\* parsing_results has one entry per week of the schedule, in order
CoversEveryWeek(results, issues, sd) ==
    /\ Len(results) = Len(sd)
    /\ \A i \in 1..Len(sd) :
           /\ results[i][1] = sd[i][1]
           /\ IF parse_week_date(sd[i][1]).kind = "datetime"
              THEN HoldsDaysOf(results[i][2], sd[i])
              ELSE HoldsNoDate(results[i][2], issues, sd[i])

\* C26: the debug structure has one parsing_results entry for every week of
\* the input, resolvable or not: the entry of a resolvable week holds, for each
\* canonical day key, the raw text, the parsed windows, the extracted
\* annotation and the resolved date; the entry of an unresolvable week holds a
\* null date and no days, exactly one 'Could not parse week date' issue is
\* recorded for it, and it contributes no calendar event.
C26_DebugCoversEveryWeek ==
    "generate_debug_info" \in returned =>
        /\ debug_info.kind = "dict"
        /\ CoversEveryWeek(debug_info.parsing_results, debug_info.issues_found,
                           schedule_data)
        /\ DebugEventsFollowWindows(debug_info.calendar_events,
                                    CanonicalWindows(schedule_data))

----------------------------------------------------------------------------
(* Claims about the agreement of the two generators, under Spec *)

BothReturned == {"generate_icalendar", "generate_debug_info"} \subseteq returned

\* the k-th debug event has the date, the start, the end and the summary of
\* the k-th event block, given the DTSTART, DTEND and SUMMARY values in order
EventsAgree(events, starts, ends, summaries) ==
    /\ Len(starts) = Len(events)
    /\ Len(ends) = Len(events)
    /\ Len(summaries) = Len(events)
    /\ \A k \in 1..Len(events) :
           /\ starts[k] = RemoveChars(events[k].date, {"-"}) \o <<"T">>
                              \o RemoveChars(events[k].start_time, {":"}) \o <<"0", "0">>
           /\ ends[k] = RemoveChars(events[k].date, {"-"}) \o <<"T">>
                            \o RemoveChars(events[k].end_time, {":"}) \o <<"0", "0">>
           /\ summaries[k] = events[k].summary

\* C27: the debug output and the calendar document agree: for every schedule
\* calendar_events has as many entries as the document has VEVENT blocks, that
\* number is summary.total_events, and the i-th debug event has the date, the
\* start time, the end time and the summary of the i-th VEVENT.
C27_DebugAgreesWithDocument ==
    BothReturned =>
        /\ ics_content.kind = "str" <=> debug_info.kind = "dict"
        /\ ics_content.kind = "str" =>
               /\ Len(debug_info.calendar_events) = IcsEventCount
               /\ debug_info.summary.total_events = IcsEventCount
               /\ EventsAgree(debug_info.calendar_events,
                              IcsValues(ics_content, P_DTSTART),
                              IcsValues(ics_content, P_DTEND),
                              IcsValues(ics_content, P_SUMMARY))

\* two weeks with five events, one of them ending at 24:00, through both
\* generators
C27_Witness ==
    /\ BothReturned
    /\ schedule_data = <<(<<T_26_May, WD_Mixed>>), <<T_2_June, WD_Late>> >>
    /\ IcsEventCount = 5
    /\ debug_info.summary.total_events = 5
    /\ debug_info.calendar_events[4].end_time = <<"2", "4", ":", "0", "0">>

----------------------------------------------------------------------------
(* Claims about the identifiers and the weekdays of the events, under Spec *)

\* no value of the sequence occurs twice
AllDistinct(values) ==
    \A i, j \in 1..Len(values) : i # j => values[i] # values[j]

\* C28: event identifiers are unique within one generated document: no two
\* VEVENT blocks emitted by one call of generate_icalendar carry the same UID,
\* also when two week titles resolve to the same date or to start dates fewer
\* than seven days apart.
C28_IdentifiersAreUnique ==
    IcsReturned => AllDistinct(IcsValues(ics_content, P_UID))

\* the name of the weekday of the date with ordinal n (ordinal 1 is a Monday)
WeekdayNameOf(n) == day_names[((n + 6) % 7) + 1]

\* the day key of each event, in the order of emission, for the weekday items
\* of a week
KeysOfItems(items) ==
    Flatten([i \in 1..Len(items) |->
                [k \in 1..Len(parse_time_slots(items[i][2])) |-> items[i][1]]])

KeysOfEvents(sd) ==
    Flatten([i \in 1..Len(ResolvableWeeks(sd)) |->
                KeysOfItems(DayItems(ResolvableWeeks(sd)[i]))])

\* the date of the k-th start falls on the weekday named by the k-th key
StartsFallOn(starts, keys) ==
    /\ Len(starts) = Len(keys)
    /\ \A k \in 1..Len(keys) : WeekdayNameOf(OrdinalOfYmd(SubSeq(starts[k], 1, 8))) = keys[k]

\* every day entry of parsing_results names, as day_of_week, its own key, and
\* its date falls on that weekday
DaysFallOnTheirKey(results) ==
    \A i \in 1..Len(results) :
        \A k \in 1..Len(results[i][2].days) :
            /\ results[i][2].days[k][2].day_of_week = results[i][2].days[k][1]
            /\ WeekdayNameOf(toordinal(results[i][2].days[k][2].event_date))
                   = results[i][2].days[k][1]

\* C29: every event's date falls on the weekday named by the day key it was
\* generated from: for every resolvable week title and every canonical day
\* key, the weekday of (resolved week date + weekday offset) is that key, so in
\* the debug output day_of_week always equals the day name.
C29_EventsFallOnTheNamedWeekday ==
    /\ IcsReturned =>
           StartsFallOn(IcsValues(ics_content, P_DTSTART), KeysOfEvents(schedule_data))
    /\ DebugReturned =>
           /\ DaysFallOnTheirKey(debug_info.parsing_results)
           /\ \A k \in 1..Len(debug_info.calendar_events) :
                  WeekdayNameOf(OrdinalOfYmd(RemoveChars(debug_info.calendar_events[k].date,
                                                         {"-"})))
                      = debug_info.calendar_events[k].day_name

----------------------------------------------------------------------------
(* Claims about the responses of do_GET, under SpecRequest *)

\* the 'weeks' parameter, when given, is a string of digits
WeeksIsInteger(q) ==
    q.weeks = <<>> \/ (q.weeks[1] # <<>> /\ AllDigits(q.weeks[1]))

\* parameter parsing, extraction and generation all succeed: the schedule is
\* scraped and, where a generator is called, no week title makes it raise
StepsSucceed(q, pg) ==
    /\ WeeksIsInteger(q)
    /\ scrape_velopark_schedule(pg).kind = "dict"
    /\ \/ JsonRequested(q) /\ ~DebugRequested(q)
       \/ ~Raises(scrape_velopark_schedule(pg).schedule_data)

\* r is a response with status 500 and a plain-text body 'Error: <message>'
IsErrorResponse(r) ==
    /\ r.status = 500
    /\ r.content_type = "text/plain"
    /\ r.body.kind = "text"
    /\ HasPrefix(r.body.text, <<"E", "r", "r", "o", "r", ":", " ">>)

\* C30: each GET request is answered with exactly one response: status 200
\* with exactly one body when parameter parsing, extraction and generation all
\* succeed, and status 500 with a plain-text 'Error: <message>' body when any
\* step raises (the extractor fails, or 'weeks' is not an integer); a 200 status
\* line is never followed by a 500 status line within the same request.
C30_ExactlyOneResponse ==
    Answered =>
        /\ Len(response) = 1
        /\ IF StepsSucceed(query_params, page)
           THEN response[1].status = 200 /\ response[1].body # None
           ELSE IsErrorResponse(response[1])
        /\ \A i, j \in 1..Len(response) :
               i < j => ~(response[i].status = 200 /\ response[j].status = 500)

----------------------------------------------------------------------------
(* Claims about concurrent invocations, under SpecConcurrent *)

\* what the invocation c gives when it runs alone, from its entry to its
\* return, on the schedule sd
Sequential(c, sd) ==
    IF c.fn = "generate_icalendar"
    THEN generate_icalendar(sd, N_TestCalendar, c.include_notes, 8, now)
    ELSE generate_debug_info(sd, 8)

\* the invocation c holds what it would hold had it run alone on sd: its
\* result once it has returned or raised, and before that the lines, the
\* events, the parsing results and the issues of the weeks it has visited
AsIfAlone(c, sd, alone) ==
    IF c.result # None THEN c.result = Sequential(c, sd)
    ELSE IF c.fn = "generate_icalendar"
    THEN /\ alone.kind = "str"
         /\ c.ics_lines \o <<L_END_VCALENDAR>> = alone.ics_lines
    ELSE /\ alone.kind = "dict"
         /\ c.calendar_events = alone.calendar_events
         /\ c.parsing_results = alone.parsing_results
         /\ c.issues_found = alone.issues_found

\* C23: concurrent invocations are safe. No step of an invocation changes a
\* schedule object, and however the steps of two invocations of
\* generate_icalendar and generate_debug_info interleave, on the same
\* schedule object or on different ones, each invocation holds at every
\* moment, and returns at its end, what it would have had it run alone.
C23_ConcurrentInvocationsAreSafe ==
    /\ [][heap' = heap]_vars
    /\ [](\A i \in DOMAIN calls :
              AsIfAlone(calls[i], heap[calls[i].schedule_data],
                        Sequential(calls[i],
                                   SubSeq(heap[calls[i].schedule_data], 1, calls[i].pos))))

\* both invocations have returned their document and their debug structure
\* of the two weeks of the one schedule object they were passed
C23_Witness ==
    /\ calls # <<>>
    /\ calls[1].schedule_data = calls[2].schedule_data
    /\ calls[1].fn # calls[2].fn
    /\ \A i \in 1..2 : calls[i].result # None /\ calls[i].pos = 2
    /\ \E i \in 1..2 : calls[i].result.kind = "dict" /\ calls[i].result.calendar_events # <<>>

====
